---- MODULE Spec2Model ----
(***************************************************************************)
(* AerospikeSaver (langgraph/checkpoint/aerospike/saver.py): a checkpoint  *)
(* store over a key-value backend.  The backend is three sets of records   *)
(* (lg_cp, lg_cp_meta, lg_cp_w); every client.put / client.get of the      *)
(* saver is one atomic step of the calling process, so that calls of       *)
(* different callers interleave between backend requests.                  *)
(*                                                                         *)
(* Python strings are sequences of one-character strings; None is the      *)
(* token NoneVal, which is no string.                                      *)
(***************************************************************************)
EXTENDS Integers, Sequences, FiniteSets, TLC

\* ------------------------------------------------------------------ bounds
\* Largest timeline_max argument handed to the constructor.
MaxTimelineArg == 2

\* ------------------------------------------------------------- constants
SEP == <<"|">>
NoneVal == <<"None">>
LATEST == <<"_", "_", "l", "a", "t", "e", "s", "t", "_", "_">>
TIMELINE == <<"_", "_", "t", "i", "m", "e", "l", "i", "n", "e", "_", "_">>

\* A truthiness test that takes only None for falsy: `is None` for `not`.
Falsy_NoneOnly(x) == x = NoneVal

\* Python truthiness of an optional string: None and "" are falsy.
Falsy(x) == x = NoneVal \/ x = <<>>

\* x or y
Or(x, y) == IF Falsy(x) THEN y ELSE x

Max(a, b) == IF a >= b THEN a ELSE b

\* seq[:n]
Take(seq, n) == SubSeq(seq, 1, IF n < Len(seq) THEN n ELSE Len(seq))

\* ------------------------------------------------------------- processes
Procs == {"p1", "p2"}

\* --------------------------------------------------------------- inputs
Threads == {<<"t">>}
Namespaces == {<<"n">>}
\* Checkpoint ids, in the order callers first use them: ids are opaque to
\* the saver, so a caller's new id is always the first one not yet stored.
IdSeq == <<(<<"a">>), (<<"b">>), (<<"c">>), (<<"d">>), (<<"e">>), (<<"f">>), (<<"g">>)>>
\* A thread id that contains the separator.
SepThread == <<"t", "|", "x">>
SepNamespace == <<"n", "|", "x">>
SepId == <<"x", "|", "a">>
EmptyMap == <<>>
\* _now_ns(): the clock's reading.
NowStamp == <<"N1">>
\* langgraph.checkpoint.base: the special channels and WRITES_IDX_MAP.
ERROR == <<"__error__">>
SCHEDULED == <<"__scheduled__">>
INTERRUPT == <<"__interrupt__">>
RESUME == <<"__resume__">>
SpecialChannels == {ERROR, SCHEDULED, INTERRUPT, RESUME}
WRITES_IDX_MAP(channel) ==
    CASE channel = ERROR -> -1
      [] channel = SCHEDULED -> -2
      [] channel = INTERRUPT -> -3
      [] channel = RESUME -> -4

\* A RunnableConfig: the "configurable" and "metadata" mappings, a missing
\* key being None.
MkConfig(thread_id, checkpoint_ns, checkpoint_id, before) ==
    [configurable |-> [thread_id |-> thread_id, checkpoint_ns |-> checkpoint_ns,
                       checkpoint_id |-> checkpoint_id, before |-> before],
     metadata |-> [thread_id |-> NoneVal, checkpoint_ns |-> NoneVal]]

\* ----------------------------------------------------------------- state
VARIABLES
    lg_cp,          \* set_cp: key -> bins of a main checkpoint record
    lg_cp_meta,     \* set_meta: key -> bins of a latest or timeline record
    lg_cp_w,        \* set_writes: key -> bins of a ledger record
    timeline_max,   \* self.timeline_max
    pc,             \* per caller: the backend request it is about to issue
    loc,            \* per caller: arguments and locals of the call in progress
    last,           \* the call that completed last, with its result
    recent,         \* history: per (thread, ns), the ids put, latest put first
    written,        \* history: per (thread, ns, id), what its latest put wrote
    overlap,        \* history: some call ran while another was in progress
    reput,          \* history: the (thread, ns, id) put more than once
    twice,          \* history: the last call repeated a delete_thread that
                    \* had found records
    crash           \* history: a put stopped with the latest pointer ahead
                    \* of the timeline ("stale"); a later put completed
                    \* ("healed")

vars == <<lg_cp, lg_cp_meta, lg_cp_w, timeline_max, pc, loc, last,
          recent, written, overlap, reput, twice, crash>>
db == <<lg_cp, lg_cp_meta, lg_cp_w>>
hist == <<recent, written>>

NoCall == [op |-> "none"]
NoLoc == [op |-> "none"]
\* A set of the backend with no record in it.
EmptyStore == [k \in {} |-> <<>>]

\* ------------------------------------------------------------ key scheme
_key_cp(thread_id, checkpoint_ns, checkpoint_id) ==
    thread_id \o SEP \o checkpoint_ns \o SEP \o checkpoint_id

_key_writes(thread_id, checkpoint_ns, checkpoint_id) ==
    thread_id \o SEP \o checkpoint_ns \o SEP \o checkpoint_id

_key_latest(thread_id, checkpoint_ns) ==
    thread_id \o SEP \o checkpoint_ns \o SEP \o LATEST

_key_timeline(thread_id, checkpoint_ns) ==
    thread_id \o SEP \o checkpoint_ns \o SEP \o TIMELINE

\* ----------------------------------------------------------------- codec
\* serde.dumps_typed: a type tag and the encoded bytes of a value.
dumps_typed(value) == <<"msgpack", <<"bytes", value>>>>

\* A codec that loads whatever it is given.
CanLoad_Always(type_, serialized) == TRUE

\* serde.loads_typed succeeds on what dumps_typed produced.
CanLoad(type_, serialized) ==
    /\ type_ = "msgpack"
    /\ Len(serialized) = 2
    /\ serialized[1] = "bytes"

loads_typed(type_, serialized) == serialized[2]

\* json.dumps / json.loads of a mapping or a list: the text is tagged.
json_dumps(value) == <<"json", value>>
CanJsonLoad(text) == Len(text) = 2 /\ text[1] = "json"
json_loads(text) == text[2]

\* json.dumps(items) of the timeline: Python tuples (t, cid) become JSON
\* lists [t, cid].
TupleToList(item) == <<item.t, item.cid>>
DumpItems(items) == json_dumps([i \in DOMAIN items |-> TupleToList(items[i])])

\* A config parser that raises nothing.
_ids_from_config_lenient(config) ==
    [raise |-> FALSE,
     thread_id |-> Or(config.configurable.thread_id, config.metadata.thread_id),
     checkpoint_ns |-> Or(Or(config.configurable.checkpoint_ns,
                             config.metadata.checkpoint_ns), <<>>),
     checkpoint_id |-> config.configurable.checkpoint_id,
     before |-> config.configurable.before]

\* ---------------------------------------------------------------- config
\* _ids_from_config: (thread_id, checkpoint_ns, checkpoint_id, before), or
\* ValueError when no thread_id is given.
_ids_from_config(config) ==
    LET c == config.configurable
        md == config.metadata
        thread_id == Or(c.thread_id, md.thread_id)
    IN  IF Falsy(thread_id)
        THEN [raise |-> TRUE]
        ELSE [raise |-> FALSE,
              thread_id |-> thread_id,
              checkpoint_ns |-> Or(Or(c.checkpoint_ns, md.checkpoint_ns), <<>>),
              checkpoint_id |-> c.checkpoint_id,
              before |-> c.before]

\* ------------------------------------------------------------ backend io
\* A client.put under a create-only policy: a record that exists is kept.
_put_create_only(store, key, bins) ==
    IF key \in DOMAIN store THEN store
    ELSE [k \in DOMAIN store \cup {key} |-> IF k = key THEN bins ELSE store[k]]

\* client.put: the bins given are written over the record's bins.
_put(store, key, bins) ==
    [k \in DOMAIN store \cup {key} |->
        IF k = key
        THEN IF key \in DOMAIN store
             THEN [b \in DOMAIN store[key] \cup DOMAIN bins |->
                      IF b \in DOMAIN bins THEN bins[b] ELSE store[key][b]]
             ELSE bins
        ELSE store[k]]

\* client.get raising RecordNotFound: _get returns None.
_get_found(store, key) == key \in DOMAIN store

\* _read_timeline_items on a record that was read: the cleaned items.
RECURSIVE Cleaned(_)
Cleaned(items) ==
    IF items = <<>> THEN <<>>
    ELSE LET it == Head(items)
         IN  (IF Len(it) = 2 THEN <<[t |-> it[1], cid |-> it[2]]>> ELSE <<>>)
             \o Cleaned(Tail(items))

_read_timeline_items(store, timeline_key) ==
    IF ~ _get_found(store, timeline_key) THEN <<>>
    ELSE LET bins == store[timeline_key]
         IN  IF "items" \notin DOMAIN bins THEN <<>>
             ELSE IF ~ CanJsonLoad(bins.items) THEN <<>>
             ELSE Cleaned(json_loads(bins.items))

\* ------------------------------------------------------------------ init
\* AerospikeSaver.__init__: timeline_max = max(1, int(timeline_max)).
Init ==
    /\ lg_cp = EmptyStore
    /\ lg_cp_meta = EmptyStore
    /\ lg_cp_w = EmptyStore
    /\ \E arg \in 0..MaxTimelineArg : timeline_max = Max(1, arg)
    /\ pc = [p \in Procs |-> "idle"]
    /\ loc = [p \in Procs |-> NoLoc]
    /\ last = NoCall
    /\ recent = [tn \in (Threads \cup {SepThread})
                          \X (Namespaces \cup {SepNamespace}) |-> <<>>]
    /\ written = EmptyStore
    /\ overlap = FALSE
    /\ reput = {}
    /\ twice = FALSE
    /\ crash = "none"

\* A caller starts a call: it is idle, and the call overlaps any call that
\* another caller has in progress.
Call(p) ==
    /\ pc[p] = "idle"
    /\ overlap' = (overlap \/ \E q \in Procs \ {p} : pc[q] # "idle")

\* A call returns (or raises): the caller is idle again and the call is
\* recorded with its result.
Return(p, call) ==
    /\ pc' = [pc EXCEPT ![p] = "idle"]
    /\ loc' = [loc EXCEPT ![p] = NoLoc]
    /\ last' = call

\* The call goes on to its next backend request.
Goto(p, stage, locals) ==
    /\ pc' = [pc EXCEPT ![p] = stage]
    /\ loc' = [loc EXCEPT ![p] = locals]
    /\ UNCHANGED last

\* History of the puts that completed: the id becomes the latest put of its
\* (thread, ns), and what was put is what the triple now holds.
RecordPut(thread_id, checkpoint_ns, checkpoint, metadata) ==
    /\ recent' = [recent EXCEPT ![<<thread_id, checkpoint_ns>>] =
                    <<checkpoint.id>> \o SelectSeq(@, LAMBDA x : x # checkpoint.id)]
    /\ written' = [k \in DOMAIN written \cup {<<thread_id, checkpoint_ns, checkpoint.id>>} |->
                    IF k = <<thread_id, checkpoint_ns, checkpoint.id>>
                    THEN [checkpoint |-> checkpoint, metadata |-> metadata]
                    ELSE written[k]]

\* ------------------------------------------------------------------- put
\* A filter that keeps the id's old entry.
Without_Keep(items, checkpoint_id) == items

\* [i for i in items if cid != checkpoint_id]
RECURSIVE Without(_, _)
Without(items, checkpoint_id) ==
    IF items = <<>> THEN <<>>
    ELSE (IF Head(items).cid # checkpoint_id THEN <<Head(items)>> ELSE <<>>)
         \o Without(Tail(items), checkpoint_id)

\* A put that goes on to the latest pointer without having written the
\* main record.
PutMain_NoWrite(p, config, checkpoint, metadata) ==
    /\ Call(p)
    /\ UNCHANGED <<db, timeline_max, hist>>
    /\ LET ids == _ids_from_config(config)
           call == [op |-> "put", proc |-> p, config |-> config,
                    checkpoint |-> checkpoint, metadata |-> metadata]
       IN  IF ids.raise \/ Falsy(checkpoint.id)
           THEN Return(p, [call EXCEPT !.op = "put_ValueError"])
           ELSE Goto(p, "put_latest",
                     [call EXCEPT !.checkpoint.ts =
                        IF checkpoint.ts = NoneVal THEN NowStamp ELSE checkpoint.ts])

\* put, up to and including the write of the main record.
PutMain(p, config, checkpoint, metadata) ==
    /\ Call(p)
    /\ UNCHANGED <<lg_cp_meta, lg_cp_w, timeline_max, hist>>
    /\ LET ids == _ids_from_config(config)
           call == [op |-> "put", proc |-> p, config |-> config,
                    checkpoint |-> checkpoint, metadata |-> metadata]
       IN  IF ids.raise \/ Falsy(checkpoint.id)
           THEN /\ Return(p, [call EXCEPT !.op = "put_ValueError"])
                /\ UNCHANGED lg_cp
           ELSE LET ts == IF checkpoint.ts = NoneVal THEN NowStamp ELSE checkpoint.ts
                    stamped == [checkpoint EXCEPT !.ts = ts]
                    typed == dumps_typed(stamped)
                    key == _key_cp(ids.thread_id, ids.checkpoint_ns, checkpoint.id)
                    rec == [thread_id |-> ids.thread_id,
                            checkpoint_ns |-> ids.checkpoint_ns,
                            checkpoint_id |-> checkpoint.id,
                            p_checkpoint_id |-> ids.checkpoint_id,
                            cp_type |-> typed[1],
                            checkpoint |-> typed[2],
                            metadata |-> json_dumps(Or(metadata, EmptyMap)),
                            ts |-> ts]
                IN  /\ lg_cp' = _put(lg_cp, key, rec)
                    /\ Goto(p, "put_latest", [call EXCEPT !.checkpoint = stamped])

\* A put that writes the latest pointer only when there is none yet.
PutLatest_CreateOnly(p) ==
    /\ pc[p] = "put_latest"
    /\ LET ids == _ids_from_config(loc[p].config)
           latest_key == _key_latest(ids.thread_id, ids.checkpoint_ns)
       IN  lg_cp_meta' = IF latest_key \in DOMAIN lg_cp_meta THEN lg_cp_meta
                         ELSE _put(lg_cp_meta, latest_key,
                                   [checkpoint_id |-> loc[p].checkpoint.id,
                                    ts |-> loc[p].checkpoint.ts])
    /\ Goto(p, "put_read_timeline", loc[p])
    /\ UNCHANGED <<lg_cp, lg_cp_w, timeline_max, hist, overlap>>

\* A put that stamps the latest pointer with the clock's reading.
PutLatest_Now(p) ==
    /\ pc[p] = "put_latest"
    /\ LET ids == _ids_from_config(loc[p].config)
           latest_key == _key_latest(ids.thread_id, ids.checkpoint_ns)
       IN  lg_cp_meta' = _put(lg_cp_meta, latest_key,
                              [checkpoint_id |-> loc[p].checkpoint.id,
                               ts |-> NowStamp])
    /\ Goto(p, "put_read_timeline", loc[p])
    /\ UNCHANGED <<lg_cp, lg_cp_w, timeline_max, hist, overlap>>

\* put: the write of the latest pointer.
PutLatest(p) ==
    /\ pc[p] = "put_latest"
    /\ LET ids == _ids_from_config(loc[p].config)
           latest_key == _key_latest(ids.thread_id, ids.checkpoint_ns)
       IN  lg_cp_meta' = _put(lg_cp_meta, latest_key,
                              [checkpoint_id |-> loc[p].checkpoint.id,
                               ts |-> loc[p].checkpoint.ts])
    /\ Goto(p, "put_read_timeline", loc[p])
    /\ UNCHANGED <<lg_cp, lg_cp_w, timeline_max, hist, overlap>>

\* put: the read of the timeline record.
PutReadTimeline(p) ==
    /\ pc[p] = "put_read_timeline"
    /\ LET ids == _ids_from_config(loc[p].config)
           timeline_key == _key_timeline(ids.thread_id, ids.checkpoint_ns)
           items == _read_timeline_items(lg_cp_meta, timeline_key)
       IN  Goto(p, "put_write_timeline",
                [op |-> "put", proc |-> p, config |-> loc[p].config,
                 checkpoint |-> loc[p].checkpoint,
                 metadata |-> loc[p].metadata, items |-> items])
    /\ UNCHANGED <<db, timeline_max, hist, overlap>>

\* A timeline with the new entry last instead of first.
NewTimeline_Append(items, ts, checkpoint_id, cap) ==
    LET inserted == Without(items, checkpoint_id)
                    \o <<[t |-> ts, cid |-> checkpoint_id]>>
    IN  IF Len(inserted) > cap THEN Take(inserted, cap) ELSE inserted

\* A timeline that is never cut.
NewTimeline_NoCap(items, ts, checkpoint_id, cap) ==
    <<[t |-> ts, cid |-> checkpoint_id]>> \o Without(items, checkpoint_id)

\* The timeline put writes back: the id's old entry removed, the new entry
\* first, cut to timeline_max.
NewTimeline(items, ts, checkpoint_id, cap) ==
    LET inserted == <<[t |-> ts, cid |-> checkpoint_id]>>
                    \o Without(items, checkpoint_id)
    IN  IF Len(inserted) > cap THEN Take(inserted, cap) ELSE inserted

\* A put that builds the timeline from the record as it is when it writes.
PutWriteTimeline_Reread(p) ==
    /\ pc[p] = "put_write_timeline"
    /\ LET ids == _ids_from_config(loc[p].config)
           checkpoint_id == loc[p].checkpoint.id
           timeline_key == _key_timeline(ids.thread_id, ids.checkpoint_ns)
           inserted == <<[t |-> loc[p].checkpoint.ts, cid |-> checkpoint_id]>>
                       \o Without(_read_timeline_items(lg_cp_meta, timeline_key),
                                  checkpoint_id)
           items == IF Len(inserted) > timeline_max
                    THEN Take(inserted, timeline_max) ELSE inserted
       IN  /\ lg_cp_meta' = _put(lg_cp_meta, timeline_key,
                                 [items |-> DumpItems(items)])
           /\ Return(p, [op |-> "put", proc |-> p, config |-> loc[p].config,
                         checkpoint |-> loc[p].checkpoint,
                         metadata |-> loc[p].metadata,
                         result |-> loc[p].config])
           /\ RecordPut(ids.thread_id, ids.checkpoint_ns,
                        loc[p].checkpoint, loc[p].metadata)
    /\ UNCHANGED <<lg_cp, lg_cp_w, timeline_max, overlap>>

\* A put that returns without writing the timeline.
PutWriteTimeline_Skip(p) ==
    /\ pc[p] = "put_write_timeline"
    /\ LET ids == _ids_from_config(loc[p].config)
       IN  /\ Return(p, [op |-> "put", proc |-> p, config |-> loc[p].config,
                         checkpoint |-> loc[p].checkpoint,
                         metadata |-> loc[p].metadata,
                         result |-> loc[p].config])
           /\ RecordPut(ids.thread_id, ids.checkpoint_ns,
                        loc[p].checkpoint, loc[p].metadata)
    /\ UNCHANGED <<db, timeline_max, overlap>>

\* put: the write of the timeline record, and the return of the new config.
PutWriteTimeline(p) ==
    /\ pc[p] = "put_write_timeline"
    /\ LET ids == _ids_from_config(loc[p].config)
           checkpoint_id == loc[p].checkpoint.id
           timeline_key == _key_timeline(ids.thread_id, ids.checkpoint_ns)
           items == NewTimeline(loc[p].items, loc[p].checkpoint.ts,
                                checkpoint_id, timeline_max)
           new_config == [loc[p].config EXCEPT
                            !.configurable.thread_id = ids.thread_id,
                            !.configurable.checkpoint_ns = ids.checkpoint_ns,
                            !.configurable.checkpoint_id = checkpoint_id]
       IN  /\ lg_cp_meta' = _put(lg_cp_meta, timeline_key,
                                 [items |-> DumpItems(items)])
           /\ Return(p, [op |-> "put", proc |-> p, config |-> loc[p].config,
                         checkpoint |-> loc[p].checkpoint,
                         metadata |-> loc[p].metadata,
                         result |-> new_config])
           /\ RecordPut(ids.thread_id, ids.checkpoint_ns,
                        loc[p].checkpoint, loc[p].metadata)
    /\ UNCHANGED <<lg_cp, lg_cp_w, timeline_max, overlap>>

\* put: the write of the main record fails.  _put raises RuntimeError, the
\* record is not written, and put is over.
PutMainFails(p, config, checkpoint, metadata) ==
    /\ Call(p)
    /\ ~ _ids_from_config(config).raise
    /\ ~ Falsy(checkpoint.id)
    /\ Return(p, [op |-> "put_RuntimeError", proc |-> p, config |-> config,
                  checkpoint |-> checkpoint, metadata |-> metadata,
                  stage |-> "put_main"])
    /\ UNCHANGED <<db, timeline_max, hist>>

\* A failure handler that takes back the main record put has written.
PutFails_Rollback(p) ==
    /\ pc[p] \in {"put_latest", "put_read_timeline", "put_write_timeline"}
    /\ LET ids == _ids_from_config(loc[p].config)
           k == _key_cp(ids.thread_id, ids.checkpoint_ns, loc[p].checkpoint.id)
       IN  lg_cp' = [x \in DOMAIN lg_cp \ {k} |-> lg_cp[x]]
    /\ Return(p, [op |-> "put_RuntimeError", proc |-> p,
                  config |-> loc[p].config, checkpoint |-> loc[p].checkpoint,
                  metadata |-> loc[p].metadata, stage |-> pc[p]])
    /\ UNCHANGED <<lg_cp_meta, lg_cp_w, timeline_max, hist, overlap>>

\* put: the backend request it is about to issue fails (the write of the
\* latest pointer, the read or the write of the timeline).  _put or _get
\* raises RuntimeError, nothing is written, and put is over.
PutFails(p) ==
    /\ pc[p] \in {"put_latest", "put_read_timeline", "put_write_timeline"}
    /\ Return(p, [op |-> "put_RuntimeError", proc |-> p,
                  config |-> loc[p].config, checkpoint |-> loc[p].checkpoint,
                  metadata |-> loc[p].metadata, stage |-> pc[p]])
    /\ UNCHANGED <<db, timeline_max, hist, overlap>>

\* put: the process stops between two backend requests (a crash).  What
\* put has written stays, the rest is never written.
PutStops(p) ==
    /\ pc[p] \in {"put_latest", "put_read_timeline", "put_write_timeline"}
    /\ Return(p, [op |-> "put_stopped", proc |-> p,
                  config |-> loc[p].config, checkpoint |-> loc[p].checkpoint,
                  metadata |-> loc[p].metadata, stage |-> pc[p]])
    /\ UNCHANGED <<db, timeline_max, hist, overlap>>

\* ------------------------------------------------------------ put_writes
\* A search that never finds the item to replace: every write is appended.
replace_at_never(existing_items, task_id, idx_val) == 0

\* The position of the first item of the ledger with this (task_id, idx),
\* or 0 when there is none.
replace_at(existing_items, task_id, idx_val) ==
    LET hits == {i \in DOMAIN existing_items :
                    /\ existing_items[i].task_id = task_id
                    /\ existing_items[i].idx = idx_val}
    IN  IF hits = {} THEN 0
        ELSE CHOOSE i \in hits : \A j \in hits : i <= j

\* A put_writes that replaces the whole ledger by the batch.
MergeWrites_ReplaceAll(existing_items, writes, idx, task_id, task_path) ==
    [n \in DOMAIN writes |->
        [task_id |-> task_id, task_path |-> task_path,
         channel |-> writes[n].channel,
         idx |-> IF writes[n].channel \in SpecialChannels
                 THEN WRITES_IDX_MAP(writes[n].channel) ELSE idx + n - 1,
         type |-> dumps_typed(writes[n].value)[1],
         value |-> dumps_typed(writes[n].value)[2],
         ts |-> NowStamp]]

\* The loop of put_writes over enumerate(writes), from position idx on.
RECURSIVE MergeWrites(_, _, _, _, _)
MergeWrites(existing_items, writes, idx, task_id, task_path) ==
    IF writes = <<>> THEN existing_items
    ELSE LET channel == Head(writes).channel
             idx_val == IF channel \in SpecialChannels
                        THEN WRITES_IDX_MAP(channel) ELSE idx
             typed == dumps_typed(Head(writes).value)
             new_item == [task_id |-> task_id, task_path |-> task_path,
                          channel |-> channel, idx |-> idx_val,
                          type |-> typed[1], value |-> typed[2],
                          ts |-> NowStamp]
             at == replace_at(existing_items, task_id, idx_val)
         IN  MergeWrites(IF at # 0
                         THEN [existing_items EXCEPT ![at] = new_item]
                         ELSE Append(existing_items, new_item),
                         Tail(writes), idx + 1, task_id, task_path)

\* put_writes, up to and including the read of the ledger record.
PutWritesRead(p, config, writes, task_id, task_path) ==
    /\ Call(p)
    /\ UNCHANGED <<db, timeline_max, hist>>
    /\ LET call == [op |-> "put_writes", proc |-> p, config |-> config,
                    writes |-> writes, task_id |-> task_id,
                    task_path |-> task_path]
           ids == _ids_from_config(config)
       IN  IF writes = <<>> THEN Return(p, call)
           ELSE IF ids.raise
           THEN Return(p, [call EXCEPT !.op = "put_writes_ValueError"])
           ELSE IF Falsy(ids.checkpoint_id) THEN Return(p, call)
           ELSE LET key == _key_writes(ids.thread_id, ids.checkpoint_ns,
                                       ids.checkpoint_id)
                    existing_items == IF _get_found(lg_cp_w, key)
                                      THEN lg_cp_w[key].writes ELSE <<>>
                IN  Goto(p, "put_writes_write",
                         [op |-> "put_writes", proc |-> p, config |-> config,
                          writes |-> writes, task_id |-> task_id,
                          task_path |-> task_path,
                          existing_items |-> existing_items])

\* A put_writes that merges into the ledger as it is when it writes.
PutWritesWrite_Atomic(p) ==
    /\ pc[p] = "put_writes_write"
    /\ LET ids == _ids_from_config(loc[p].config)
           key == _key_writes(ids.thread_id, ids.checkpoint_ns, ids.checkpoint_id)
           merged == MergeWrites(IF _get_found(lg_cp_w, key)
                                 THEN lg_cp_w[key].writes ELSE <<>>,
                                 loc[p].writes, 0,
                                 loc[p].task_id, loc[p].task_path)
       IN  /\ lg_cp_w' = _put(lg_cp_w, key, [writes |-> merged])
           /\ Return(p, [op |-> "put_writes", proc |-> p,
                         config |-> loc[p].config, writes |-> loc[p].writes,
                         task_id |-> loc[p].task_id,
                         task_path |-> loc[p].task_path])
    /\ UNCHANGED <<lg_cp, lg_cp_meta, timeline_max, hist, overlap>>

\* put_writes: the merge and the write of the ledger record.
PutWritesWrite(p) ==
    /\ pc[p] = "put_writes_write"
    /\ LET ids == _ids_from_config(loc[p].config)
           key == _key_writes(ids.thread_id, ids.checkpoint_ns, ids.checkpoint_id)
           merged == MergeWrites(loc[p].existing_items, loc[p].writes, 0,
                                 loc[p].task_id, loc[p].task_path)
       IN  /\ lg_cp_w' = _put(lg_cp_w, key, [writes |-> merged])
           /\ Return(p, [op |-> "put_writes", proc |-> p,
                         config |-> loc[p].config, writes |-> loc[p].writes,
                         task_id |-> loc[p].task_id,
                         task_path |-> loc[p].task_path])
    /\ UNCHANGED <<lg_cp, lg_cp_meta, timeline_max, hist, overlap>>

\* ------------------------------------------------------------- get_tuple
\* get_tuple returning None.
NotFound == [found |-> FALSE]

\* A get_tuple that lets the backend's RecordNotFound through.
GetNone_Raises(p, config) ==
    [op |-> "get_tuple_RecordNotFound", proc |-> p, config |-> config]

\* get_tuple returning None: the call as it is recorded.
GetNone(p, config) ==
    [op |-> "get_tuple", proc |-> p, config |-> config, result |-> NotFound]

\* A get_tuple that takes the latest id from the head of the timeline index.
GetLatest_ViaTimeline(p, config) ==
    /\ Call(p)
    /\ UNCHANGED <<db, timeline_max, hist>>
    /\ LET call == [op |-> "get_tuple", proc |-> p, config |-> config]
           ids == _ids_from_config(config)
       IN  IF ids.raise
           THEN Return(p, [call EXCEPT !.op = "get_tuple_ValueError"])
           ELSE IF ids.checkpoint_id = NoneVal
           THEN LET items == _read_timeline_items(
                                lg_cp_meta,
                                _key_timeline(ids.thread_id, ids.checkpoint_ns))
                IN  IF items = <<>>
                    THEN Return(p, [op |-> "get_tuple", proc |-> p,
                                    config |-> config, result |-> NotFound])
                    ELSE Goto(p, "get_main",
                              [op |-> "get_tuple", proc |-> p, config |-> config,
                               checkpoint_id |-> Head(items).cid])
           ELSE Goto(p, "get_main",
                     [op |-> "get_tuple", proc |-> p, config |-> config,
                      checkpoint_id |-> ids.checkpoint_id])

\* get_tuple, up to the resolution of the checkpoint id: the read of the
\* latest pointer when the config names no checkpoint.
GetLatest(p, config) ==
    /\ Call(p)
    /\ UNCHANGED <<db, timeline_max, hist>>
    /\ LET call == [op |-> "get_tuple", proc |-> p, config |-> config]
           ids == _ids_from_config(config)
       IN  IF ids.raise
           THEN Return(p, [call EXCEPT !.op = "get_tuple_ValueError"])
           ELSE IF ids.checkpoint_id = NoneVal
           THEN LET latest_key == _key_latest(ids.thread_id, ids.checkpoint_ns)
                IN  IF \/ ~ _get_found(lg_cp_meta, latest_key)
                       \/ "checkpoint_id" \notin DOMAIN lg_cp_meta[latest_key]
                    THEN Return(p, GetNone(p, config))
                    ELSE Goto(p, "get_main",
                              [op |-> "get_tuple", proc |-> p, config |-> config,
                               checkpoint_id |->
                                   lg_cp_meta[latest_key].checkpoint_id])
           ELSE Goto(p, "get_main",
                     [op |-> "get_tuple", proc |-> p, config |-> config,
                      checkpoint_id |-> ids.checkpoint_id])

\* bins.get(name): None when the record has no such bin.
BinGet(bins, name) == IF name \in DOMAIN bins THEN bins[name] ELSE NoneVal

\* get_tuple: the read of the main record and the decoding of its payload
\* and metadata.
GetMain(p) ==
    /\ pc[p] = "get_main"
    /\ UNCHANGED <<db, timeline_max, hist, overlap>>
    /\ LET ids == _ids_from_config(loc[p].config)
           key == _key_cp(ids.thread_id, ids.checkpoint_ns, loc[p].checkpoint_id)
           none == GetNone(p, loc[p].config)
       IN  IF ~ _get_found(lg_cp, key) THEN Return(p, none)
           ELSE LET bins == lg_cp[key] IN
                IF "cp_type" \notin DOMAIN bins \/ "checkpoint" \notin DOMAIN bins
                THEN Return(p, none)
                ELSE IF ~ CanLoad(bins.cp_type, bins.checkpoint)
                THEN Return(p, none)
                ELSE Goto(p, "get_writes",
                          [op |-> "get_tuple", proc |-> p,
                           config |-> loc[p].config,
                           checkpoint_id |-> loc[p].checkpoint_id,
                           checkpoint |-> loads_typed(bins.cp_type, bins.checkpoint),
                           metadata |->
                               IF "metadata" \in DOMAIN bins
                                  /\ CanJsonLoad(bins.metadata)
                               THEN json_loads(bins.metadata) ELSE EmptyMap,
                           p_checkpoint_id |-> BinGet(bins, "p_checkpoint_id")])

\* An item of a ledger can be decoded: its fields are there (no KeyError).
WellFormed(item) == {"channel", "type", "value"} \subseteq DOMAIN item

\* The loop of get_tuple over the ledger's items: the (task_id, channel,
\* value) of every well-formed item.
RECURSIVE PendingWrites(_)
PendingWrites(items) ==
    IF items = <<>> THEN <<>>
    ELSE LET item == Head(items)
         IN  (IF WellFormed(item)
              THEN <<[task_id |-> IF "task_id" \in DOMAIN item
                                  THEN item.task_id ELSE <<>>,
                      channel |-> item.channel,
                      value |-> loads_typed(item.type, item.value)]>>
              ELSE <<>>)
             \o PendingWrites(Tail(items))

\* loads_typed raises on an item that has its fields: get_tuple catches
\* KeyError only.
Undecodable(items) ==
    \E i \in DOMAIN items :
        WellFormed(items[i]) /\ ~ CanLoad(items[i].type, items[i].value)

\* get_tuple: the read of the ledger record, and the CheckpointTuple.
GetWrites(p) ==
    /\ pc[p] = "get_writes"
    /\ UNCHANGED <<db, timeline_max, hist, overlap>>
    /\ LET ids == _ids_from_config(loc[p].config)
           checkpoint_id == loc[p].checkpoint_id
           key == _key_writes(ids.thread_id, ids.checkpoint_ns, checkpoint_id)
           items == IF _get_found(lg_cp_w, key) /\ "writes" \in DOMAIN lg_cp_w[key]
                    THEN lg_cp_w[key].writes ELSE <<>>
       IN  IF Undecodable(items)
           THEN Return(p, [op |-> "get_tuple_Exception", proc |-> p,
                           config |-> loc[p].config])
           ELSE Return(p, [op |-> "get_tuple", proc |-> p,
                           config |-> loc[p].config,
                           result |->
                             [found |-> TRUE,
                              config |-> [thread_id |-> ids.thread_id,
                                          checkpoint_ns |-> ids.checkpoint_ns,
                                          checkpoint_id |-> checkpoint_id],
                              checkpoint |-> loc[p].checkpoint,
                              metadata |-> loc[p].metadata,
                              parent_config |->
                                 [thread_id |-> ids.thread_id,
                                  checkpoint_ns |-> ids.checkpoint_ns,
                                  checkpoint_id |->
                                     IF Falsy(loc[p].p_checkpoint_id)
                                     THEN NoneVal ELSE loc[p].p_checkpoint_id],
                              pending_writes |-> PendingWrites(items)]])

\* ----------------------------------------------- legacy and damaged records
\* What get_tuple may find in the sets besides what put and put_writes
\* wrote: bytes the codec cannot load, a type tag it does not know, a text
\* that is no JSON.
Garbled == <<"garbled", <<>>>>
UnknownType == "unknown"
BadJson == <<"text", <<"{">>>>

DropBin(bins, name) == [f \in DOMAIN bins \ {name} |-> bins[f]]
SetBin(bins, name, value) ==
    [f \in DOMAIN bins \cup {name} |-> IF f = name THEN value ELSE bins[f]]

MainDamages ==
    {"no_payload", "no_type", "bad_payload", "bad_type", "bad_metadata",
     "no_metadata"}

Damaged(bins, kind) ==
    CASE kind = "no_payload"   -> DropBin(bins, "checkpoint")
      [] kind = "no_type"      -> DropBin(bins, "cp_type")
      [] kind = "bad_payload"  -> SetBin(bins, "checkpoint", Garbled)
      [] kind = "bad_type"     -> SetBin(bins, "cp_type", UnknownType)
      [] kind = "bad_metadata" -> SetBin(bins, "metadata", BadJson)
      [] kind = "no_metadata"  -> DropBin(bins, "metadata")
      [] kind = "no_channel"   -> DropBin(bins, "channel")
      [] kind = "no_value"     -> DropBin(bins, "value")
      [] kind = "bad_value"    -> SetBin(bins, "value", Garbled)

\* A main record that is as put wrote it is found damaged, in one way.
DamageMain(thread_id, checkpoint_ns, checkpoint_id, kind) ==
    LET key == _key_cp(thread_id, checkpoint_ns, checkpoint_id)
    IN  /\ key \in DOMAIN lg_cp
        /\ \A k \in MainDamages : Damaged(lg_cp[key], k) # lg_cp[key]
        /\ lg_cp' = [lg_cp EXCEPT ![key] = Damaged(@, kind)]
        /\ UNCHANGED <<lg_cp_meta, lg_cp_w, timeline_max, pc, loc, last, hist,
                       overlap>>

LedgerDamages == {"no_channel", "no_value", "bad_value"}

\* An item of a ledger that is as put_writes wrote it is found damaged, in
\* one way.
DamageLedger(thread_id, checkpoint_ns, checkpoint_id, i, kind) ==
    LET key == _key_writes(thread_id, checkpoint_ns, checkpoint_id)
    IN  /\ key \in DOMAIN lg_cp_w
        /\ i \in DOMAIN lg_cp_w[key].writes
        /\ \A j \in DOMAIN lg_cp_w[key].writes, k \in LedgerDamages :
              Damaged(lg_cp_w[key].writes[j], k) # lg_cp_w[key].writes[j]
        /\ lg_cp_w' = [lg_cp_w EXCEPT ![key].writes[i] = Damaged(@, kind)]
        /\ UNCHANGED <<lg_cp, lg_cp_meta, timeline_max, pc, loc, last, hist,
                       overlap>>

\* ------------------------------------------------------------------ list
\* A filter that falls back to the whole timeline when `before` is no id of
\* it.
AfterBefore_Fallback(items, before, seen) ==
    LET hits == {i \in DOMAIN items : items[i].cid = before}
    IN  IF hits = {} THEN items
        ELSE SubSeq(items, (CHOOSE i \in hits : \A j \in hits : i <= j) + 1,
                    Len(items))

\* The loop of list over the timeline when `before` is given: the items
\* after the first one whose id is `before`.
RECURSIVE AfterBefore(_, _, _)
AfterBefore(items, before, seen) ==
    IF items = <<>> THEN <<>>
    ELSE IF ~ seen /\ Head(items).cid = before
    THEN AfterBefore(Tail(items), before, TRUE)
    ELSE (IF seen THEN <<Head(items)>> ELSE <<>>)
         \o AfterBefore(Tail(items), before, seen)

\* list, up to and including the read of the timeline record.
ListTimeline(p, config, limit) ==
    /\ Call(p)
    /\ UNCHANGED <<db, timeline_max, hist>>
    /\ LET call == [op |-> "list", proc |-> p, config |-> config, limit |-> limit]
           ids == _ids_from_config(config)
       IN  IF ids.raise THEN Return(p, [call EXCEPT !.op = "list_ValueError"])
           ELSE LET timeline_key == _key_timeline(ids.thread_id, ids.checkpoint_ns)
                    items == _read_timeline_items(lg_cp_meta, timeline_key)
                    filtered == IF Falsy(ids.before) THEN items
                                ELSE AfterBefore(items, ids.before, FALSE)
                    todo == Take(filtered, Max(1, limit))
                IN  IF todo = <<>>
                    THEN Return(p, [op |-> "list", proc |-> p, config |-> config,
                                    limit |-> limit, result |-> <<>>])
                    ELSE Goto(p, "list_fetch",
                              [op |-> "list", proc |-> p, config |-> config,
                               limit |-> limit, todo |-> todo, out |-> <<>>])

\* A list that fails on an entry whose main record is missing.
ListFetch_Raises(p) ==
    /\ pc[p] = "list_fetch"
    /\ UNCHANGED <<db, timeline_max, hist, overlap>>
    /\ LET ids == _ids_from_config(loc[p].config)
           cid == Head(loc[p].todo).cid
           key == _key_cp(ids.thread_id, ids.checkpoint_ns, cid)
       IN  IF ~ _get_found(lg_cp, key)
           THEN Return(p, [op |-> "list_RecordNotFound", proc |-> p,
                           config |-> loc[p].config, limit |-> loc[p].limit])
           ELSE LET bins == lg_cp[key]
                    meta == IF "metadata" \notin DOMAIN bins THEN EmptyMap
                            ELSE IF CanJsonLoad(bins.metadata)
                            THEN json_loads(bins.metadata) ELSE EmptyMap
                    out == Append(loc[p].out, [cid |-> cid, meta |-> meta])
                IN  IF Tail(loc[p].todo) = <<>>
                    THEN Return(p, [op |-> "list", proc |-> p,
                                    config |-> loc[p].config,
                                    limit |-> loc[p].limit, result |-> out])
                    ELSE Goto(p, "list_fetch",
                              [loc[p] EXCEPT !.todo = Tail(@), !.out = out])

\* list: the read of the main record of the next item.
ListFetch(p) ==
    /\ pc[p] = "list_fetch"
    /\ UNCHANGED <<db, timeline_max, hist, overlap>>
    /\ LET ids == _ids_from_config(loc[p].config)
           cid == Head(loc[p].todo).cid
           key == _key_cp(ids.thread_id, ids.checkpoint_ns, cid)
           out == IF ~ _get_found(lg_cp, key) THEN loc[p].out
                  ELSE LET bins == lg_cp[key]
                           meta == IF "metadata" \notin DOMAIN bins THEN EmptyMap
                                   ELSE IF CanJsonLoad(bins.metadata)
                                   THEN json_loads(bins.metadata) ELSE EmptyMap
                       IN  Append(loc[p].out, [cid |-> cid, meta |-> meta])
       IN  IF Tail(loc[p].todo) = <<>>
           THEN Return(p, [op |-> "list", proc |-> p, config |-> loc[p].config,
                           limit |-> loc[p].limit, result |-> out])
           ELSE Goto(p, "list_fetch",
                     [loc[p] EXCEPT !.todo = Tail(@), !.out = out])

\* --------------------------------------------------------- delete_thread
\* client.remove of every key given; a key with no record is passed over.
_delete(store, keys) == [k \in DOMAIN store \ keys |-> store[k]]

\* An enumeration that reads the timeline index alone.
Reachable_IndexOnly(thread_id, checkpoint_ns) ==
    LET items == _read_timeline_items(lg_cp_meta,
                                      _key_timeline(thread_id, checkpoint_ns))
    IN  {items[i].cid : i \in DOMAIN items}

\* The checkpoint ids delete_thread can enumerate: those of the timeline
\* index and the one the latest pointer names.
Reachable(thread_id, checkpoint_ns) ==
    LET items == _read_timeline_items(lg_cp_meta,
                                      _key_timeline(thread_id, checkpoint_ns))
        latest_key == _key_latest(thread_id, checkpoint_ns)
    IN  {items[i].cid : i \in DOMAIN items}
        \cup (IF _get_found(lg_cp_meta, latest_key)
                 /\ "checkpoint_id" \in DOMAIN lg_cp_meta[latest_key]
              THEN {lg_cp_meta[latest_key].checkpoint_id} ELSE {})

\* A sweep that leaves the ledger records where they are.
SweepKeys_MainOnly(thread_id, checkpoint_ns, cids) ==
    [cp |-> {_key_cp(thread_id, checkpoint_ns, c) : c \in cids},
     w |-> {},
     meta |-> {_key_timeline(thread_id, checkpoint_ns),
               _key_latest(thread_id, checkpoint_ns)}]

\* The keys delete_thread removes, per set: the main and the ledger record
\* of every id it enumerated, the timeline index and the latest pointer.
SweepKeys(thread_id, checkpoint_ns, cids) ==
    [cp |-> {_key_cp(thread_id, checkpoint_ns, c) : c \in cids},
     w |-> {_key_writes(thread_id, checkpoint_ns, c) : c \in cids},
     meta |-> {_key_timeline(thread_id, checkpoint_ns),
               _key_latest(thread_id, checkpoint_ns)}]

\* A removal that lets the backend's RecordNotFound through.
_delete_raises_strict(store, keys) == \E k \in keys : k \notin DOMAIN store

\* The removal of a key with no record is no error of delete_thread.
_delete_raises(store, keys) == FALSE

\* delete_thread: the main and ledger records of every reachable id, the
\* timeline index and the latest pointer are removed.  The call is recorded
\* with the ids it enumerated and the records it found.
DeleteThread(p, config) ==
    /\ Call(p)
    /\ UNCHANGED timeline_max
    /\ LET call == [op |-> "delete_thread", proc |-> p, config |-> config]
           ids == _ids_from_config(config)
       IN  IF ids.raise
           THEN /\ Return(p, [call EXCEPT !.op = "delete_thread_ValueError"])
                /\ UNCHANGED <<db, hist>>
           ELSE LET cids == Reachable(ids.thread_id, ids.checkpoint_ns)
                    keys == SweepKeys(ids.thread_id, ids.checkpoint_ns, cids)
                IN  IF \/ _delete_raises(lg_cp, keys.cp)
                       \/ _delete_raises(lg_cp_w, keys.w)
                       \/ _delete_raises(lg_cp_meta, keys.meta)
                    THEN /\ Return(p, [call EXCEPT
                                         !.op = "delete_thread_RecordNotFound"])
                         /\ UNCHANGED <<db, hist>>
                    ELSE /\ lg_cp' = _delete(lg_cp, keys.cp)
                         /\ lg_cp_w' = _delete(lg_cp_w, keys.w)
                         /\ lg_cp_meta' = _delete(lg_cp_meta, keys.meta)
                         /\ Return(p, [op |-> "delete_thread", proc |-> p,
                                       config |-> config, cids |-> cids,
                                       found |->
                                         [cp |-> keys.cp \cap DOMAIN lg_cp,
                                          w |-> keys.w \cap DOMAIN lg_cp_w,
                                          meta |-> keys.meta \cap DOMAIN lg_cp_meta]])
                         /\ recent' = [recent EXCEPT
                                         ![<<ids.thread_id, ids.checkpoint_ns>>] = <<>>]
                         /\ written' = [k \in {x \in DOMAIN written :
                                                 <<x[1], x[2]>> #
                                                 <<ids.thread_id, ids.checkpoint_ns>>}
                                        |-> written[k]]

\* saver._delete(saver._key_timeline(tid, cns)): the timeline index of a
\* (thread, ns) is removed on its own, by a call of the same caller.
DropTimeline(p, thread_id, checkpoint_ns) ==
    /\ Call(p)
    /\ lg_cp_meta' = _delete(lg_cp_meta, {_key_timeline(thread_id, checkpoint_ns)})
    /\ Return(p, [op |-> "_delete", proc |-> p,
                  config |-> MkConfig(thread_id, checkpoint_ns, NoneVal, NoneVal),
                  found |-> _get_found(lg_cp_meta,
                                       _key_timeline(thread_id, checkpoint_ns))])
    /\ UNCHANGED <<lg_cp, lg_cp_w, timeline_max, hist>>

\* ---------------------------------------------------------------- inputs
\* The ids some record or some call in progress of (thread, ns) carries.
Known(thread_id, checkpoint_ns) ==
    {IdSeq[i] : i \in {j \in DOMAIN IdSeq :
        \/ _key_cp(thread_id, checkpoint_ns, IdSeq[j]) \in DOMAIN lg_cp
        \/ _key_writes(thread_id, checkpoint_ns, IdSeq[j]) \in DOMAIN lg_cp_w
        \/ \E p \in Procs :
              /\ pc[p] # "idle"
              /\ loc[p].config.configurable.checkpoint_id = IdSeq[j]}}

\* The ids a caller may name, among the first n: every known id and the
\* first id not yet known.
CallerIds(thread_id, checkpoint_ns, n) ==
    {IdSeq[i] : i \in {j \in 1..n :
        \/ IdSeq[j] \in Known(thread_id, checkpoint_ns)
        \/ \A k \in 1..(j - 1) : IdSeq[k] \in Known(thread_id, checkpoint_ns)}}

\* The checkpoints a caller puts: with a timestamp of its own, or with none.
Envelopes == {[ts |-> <<"T1">>, v |-> <<"V1">>], [ts |-> NoneVal, v |-> <<"V2">>]}
Metadatas == {EmptyMap, <<"M1">>}
Tasks == {<<"k1">>}
LedgerTasks == {<<"k1">>, <<"k2">>}
LedgerBatches ==
    {<<[channel |-> <<"messages">>, value |-> <<"a">>],
       [channel |-> <<"messages">>, value |-> <<"b">>]>>,
     <<[channel |-> <<"messages">>, value |-> <<"c">>]>>,
     <<[channel |-> ERROR, value |-> <<"e">>],
       [channel |-> <<"messages">>, value |-> <<"b">>]>>}
Limits == {0, 2, 20}

\* History of the triples put again: a put that completes on a triple that
\* a completed put already wrote; delete_thread forgets its (thread, ns).
TrackReput ==
    reput' =
      IF \E p \in Procs : pc[p] = "put_write_timeline" /\ pc'[p] = "idle"
      THEN reput \cup
           ({<<_ids_from_config(last'.config).thread_id,
               _ids_from_config(last'.config).checkpoint_ns,
               last'.checkpoint.id>>} \cap DOMAIN written)
      ELSE IF last'.op = "delete_thread"
      THEN {k \in reput : <<k[1], k[2]>> #
                             <<_ids_from_config(last'.config).thread_id,
                               _ids_from_config(last'.config).checkpoint_ns>>}
      ELSE reput

\* A call of delete_thread, or a failed one.
IsDelete(call) == call.op \in {"delete_thread", "delete_thread_ValueError",
                               "delete_thread_RecordNotFound"}

\* A step that is a whole call of delete_thread: the caller was idle and is
\* idle again.
DeleteStep ==
    /\ \A p \in Procs : pc[p] = "idle" /\ pc'[p] = "idle"
    /\ IsDelete(last')
    /\ last' # last \/ db' # db

\* History of the repeated deletions: delete_thread is called again, with
\* the same config, right after a delete_thread that found records.
TrackTwice ==
    twice' =
      IF last' = last /\ db' = db /\ pc' = pc THEN twice
      ELSE /\ DeleteStep
           /\ last.op = "delete_thread"
           /\ last'.config = last.config
           /\ last.found.cp # {}

Track == TrackReput /\ TrackTwice

\* ------------------------------------------------------------------ spec
\* One caller, whose calls never overlap: every operation of the store.
Next ==
    /\ \E t \in Threads, ns \in Namespaces :
         \/ \E id \in CallerIds(t, ns, 2), e \in Envelopes, metadata \in Metadatas :
               PutMain("p1", MkConfig(t, ns, NoneVal, NoneVal),
                       [id |-> id, ts |-> e.ts, v |-> e.v], metadata)
         \/ PutLatest("p1")
         \/ PutReadTimeline("p1")
         \/ PutWriteTimeline("p1")
         \/ \E id \in CallerIds(t, ns, 2), task_id \in Tasks :
               PutWritesRead("p1", MkConfig(t, ns, id, NoneVal),
                             <<[channel |-> <<"messages">>, value |-> <<"x">>]>>,
                             task_id, <<>>)
         \/ PutWritesWrite("p1")
         \/ \E id \in CallerIds(t, ns, 2) \cup {NoneVal} :
               GetLatest("p1", MkConfig(t, ns, id, NoneVal))
         \/ GetMain("p1")
         \/ GetWrites("p1")
         \/ ListTimeline("p1", MkConfig(t, ns, NoneVal, NoneVal), 20)
         \/ ListFetch("p1")
         \/ DeleteThread("p1", MkConfig(t, ns, NoneVal, NoneVal))
    /\ Track
    /\ UNCHANGED crash

Spec == Init /\ [][Next]_vars

\* One caller, whose calls never overlap: puts of up to three ids and
\* listings of the history, with and without `before`, at several limits.
NextHistory ==
    /\ \E t \in Threads, ns \in Namespaces :
         \/ \E id \in CallerIds(t, ns, 3), metadata \in Metadatas :
               PutMain("p1", MkConfig(t, ns, NoneVal, NoneVal),
                       [id |-> id, ts |-> NoneVal, v |-> <<"V1">>], metadata)
         \/ PutLatest("p1")
         \/ PutReadTimeline("p1")
         \/ PutWriteTimeline("p1")
         \/ \E before \in CallerIds(t, ns, 3) \cup {NoneVal}, limit \in Limits :
               ListTimeline("p1", MkConfig(t, ns, NoneVal, before), limit)
         \/ ListFetch("p1")
    /\ TrackReput
    /\ UNCHANGED <<twice, crash>>

SpecHistory == Init /\ [][NextHistory]_vars

\* Two callers whose puts interleave between backend requests: the first
\* puts a new id each time, up to seven; the second puts and re-puts the two
\* oldest ids.
NextCap ==
    /\ \E t \in Threads, ns \in Namespaces :
         \/ \E id \in CallerIds(t, ns, 7) \ Known(t, ns) :
               PutMain("p1", MkConfig(t, ns, NoneVal, NoneVal),
                       [id |-> id, ts |-> NoneVal, v |-> <<"V1">>], EmptyMap)
         \/ \E id \in CallerIds(t, ns, 2) :
               PutMain("p2", MkConfig(t, ns, NoneVal, NoneVal),
                       [id |-> id, ts |-> NoneVal, v |-> <<"V1">>], EmptyMap)
         \/ \E p \in Procs : PutLatest(p)
         \/ \E p \in Procs : PutReadTimeline(p)
         \/ \E p \in Procs : PutWriteTimeline(p)
    /\ UNCHANGED <<reput, twice, crash>>

SpecCap == Init /\ [][NextCap]_vars

\* One caller, whose calls never overlap: batches of writes of two tasks
\* to the ledger of one checkpoint.
NextLedger ==
    /\ \E t \in Threads, ns \in Namespaces :
         \/ \E id \in CallerIds(t, ns, 1), writes \in LedgerBatches,
               task_id \in LedgerTasks :
               PutWritesRead("p1", MkConfig(t, ns, id, NoneVal), writes, task_id, <<>>)
         \/ PutWritesWrite("p1")
    /\ UNCHANGED <<reput, twice, crash>>

SpecLedger == Init /\ [][NextLedger]_vars

\* One caller, whose calls never overlap: puts of up to three ids, the
\* removal of the timeline index on its own, and delete_thread.
NextDegraded ==
    /\ \E t \in Threads, ns \in Namespaces :
         \/ \E id \in CallerIds(t, ns, 3), e \in Envelopes :
               PutMain("p1", MkConfig(t, ns, NoneVal, NoneVal),
                       [id |-> id, ts |-> e.ts, v |-> e.v], EmptyMap)
         \/ PutLatest("p1")
         \/ PutReadTimeline("p1")
         \/ PutWriteTimeline("p1")
         \/ DropTimeline("p1", t, ns)
         \/ DeleteThread("p1", MkConfig(t, ns, NoneVal, NoneVal))
    /\ UNCHANGED <<reput, twice, crash>>

SpecDegraded == Init /\ [][NextDegraded]_vars

\* The thread ids callers hand over, well-formed or not, in the
\* "configurable" mapping and in the "metadata" mapping; the checkpoint ids
\* they hand over, present or not.
ThreadArgs == Threads \cup {NoneVal, <<>>, SepThread}
MetaThreadArgs == Threads \cup {NoneVal}
IdArgs == {IdSeq[1], NoneVal, <<>>}
WritesArgs == {<<>>, <<[channel |-> <<"messages">>, value |-> <<"x">>]>>}

\* A config with a thread id in each of its two mappings.
MkConfigMd(thread_id, md_thread_id, checkpoint_ns, checkpoint_id) ==
    [MkConfig(thread_id, checkpoint_ns, checkpoint_id, NoneVal)
        EXCEPT !.metadata.thread_id = md_thread_id]

\* One caller, whose calls never overlap: every operation, with configs
\* and arguments that are well-formed or not.
NextValidation ==
    /\ \E th \in ThreadArgs, mt \in MetaThreadArgs, ns \in Namespaces :
         \/ \E id \in IdArgs :
               PutMain("p1", MkConfigMd(th, mt, ns, NoneVal),
                       [id |-> id, ts |-> NoneVal, v |-> <<"V1">>], EmptyMap)
         \/ PutLatest("p1")
         \/ PutReadTimeline("p1")
         \/ PutWriteTimeline("p1")
         \/ \E id \in IdArgs, writes \in WritesArgs, task_id \in Tasks :
               PutWritesRead("p1", MkConfigMd(th, mt, ns, id), writes, task_id, <<>>)
         \/ PutWritesWrite("p1")
         \/ \E id \in IdArgs \ {<<>>} :
               GetLatest("p1", MkConfigMd(th, mt, ns, id))
         \/ GetMain("p1")
         \/ GetWrites("p1")
         \/ ListTimeline("p1", MkConfigMd(th, mt, ns, NoneVal), 20)
         \/ ListFetch("p1")
         \/ DeleteThread("p1", MkConfigMd(th, mt, ns, NoneVal))
    /\ UNCHANGED <<reput, twice, crash>>

SpecValidation == Init /\ [][NextValidation]_vars

\* One caller, whose calls never overlap: puts of up to two ids, any
\* backend request of which may fail.
NextFaults ==
    /\ \E t \in Threads, ns \in Namespaces :
         \/ \E id \in CallerIds(t, ns, 2), e \in Envelopes :
               PutMain("p1", MkConfig(t, ns, NoneVal, NoneVal),
                       [id |-> id, ts |-> e.ts, v |-> e.v], EmptyMap)
         \/ \E id \in CallerIds(t, ns, 2), e \in Envelopes :
               PutMainFails("p1", MkConfig(t, ns, NoneVal, NoneVal),
                            [id |-> id, ts |-> e.ts, v |-> e.v], EmptyMap)
         \/ PutLatest("p1")
         \/ PutReadTimeline("p1")
         \/ PutWriteTimeline("p1")
         \/ PutFails("p1")
    /\ UNCHANGED <<reput, twice, crash>>

SpecFaults == Init /\ [][NextFaults]_vars

\* The key scheme as a pure function: the four keys of two triples
\* (thread_id, checkpoint_ns, checkpoint_id), computed side by side.  The
\* parts are strings as a caller may pass them; nothing in _ids_from_config
\* or in the key functions looks for SEP inside them.
KeyParts == {<<"a">>, <<"a", "|", "b">>, <<"b", "|", "a">>}

KeysOf(triple) ==
    [cp       |-> _key_cp(triple[1], triple[2], triple[3]),
     writes   |-> _key_writes(triple[1], triple[2], triple[3]),
     latest   |-> _key_latest(triple[1], triple[2]),
     timeline |-> _key_timeline(triple[1], triple[2])]

ComputeKeys(p, a, b) ==
    /\ Call(p)
    /\ Return(p, [op |-> "keys", proc |-> p, a |-> a, b |-> b,
                  keys_a |-> KeysOf(a), keys_b |-> KeysOf(b)])
    /\ UNCHANGED <<db, timeline_max, hist>>

NextKeys ==
    /\ \E a \in KeyParts \X KeyParts \X KeyParts,
          b \in KeyParts \X KeyParts \X KeyParts : ComputeKeys("p1", a, b)
    /\ UNCHANGED <<reput, twice, crash>>

SpecKeys == Init /\ [][NextKeys]_vars

\* One caller, whose calls never overlap: the put of one checkpoint, one
\* batch of writes to its ledger, gets of it, and damage to its records.
NextDecode ==
    /\ \E t \in Threads, ns \in Namespaces :
         \/ \E id \in CallerIds(t, ns, 1) :
               PutMain("p1", MkConfig(t, ns, NoneVal, NoneVal),
                       [id |-> id, ts |-> <<"T1">>, v |-> <<"V1">>], <<"M1">>)
         \/ PutLatest("p1")
         \/ PutReadTimeline("p1")
         \/ PutWriteTimeline("p1")
         \/ \E id \in CallerIds(t, ns, 1) :
               PutWritesRead("p1", MkConfig(t, ns, id, NoneVal),
                             <<[channel |-> <<"messages">>, value |-> <<"a">>],
                               [channel |-> <<"messages">>, value |-> <<"b">>]>>,
                             <<"k1">>, <<>>)
         \/ PutWritesWrite("p1")
         \/ \E id \in CallerIds(t, ns, 1) \cup {NoneVal} :
               GetLatest("p1", MkConfig(t, ns, id, NoneVal))
         \/ GetMain("p1")
         \/ GetWrites("p1")
         \/ \E id \in CallerIds(t, ns, 1), kind \in MainDamages :
               DamageMain(t, ns, id, kind)
         \/ \E id \in CallerIds(t, ns, 1), i \in 1..2, kind \in LedgerDamages :
               DamageLedger(t, ns, id, i, kind)
    /\ UNCHANGED <<reput, twice, crash>>

SpecDecode == Init /\ [][NextDecode]_vars

\* ---------------------------------------------------------------- views
Idle == \A p \in Procs : pc[p] = "idle"

\* The (thread, ns) a completed call was about.
ThreadOf(call) == _ids_from_config(call.config).thread_id
NsOf(call) == _ids_from_config(call.config).checkpoint_ns
PairOf(call) == <<ThreadOf(call), NsOf(call)>>

\* ---------------------------------------------------------------- claims
\* C1: once a put has completed without overlapping another call, the latest
\* pointer of its (thread, ns) holds the id it wrote, and every get_tuple
\* without a checkpoint id that completes while that put is the latest one
\* returns that checkpoint: its id, its payload and its metadata.
C1_LatestPointerCorrect ==
    /\ (last.op = "put" /\ Idle /\ ~ overlap) =>
          LET latest_key == _key_latest(ThreadOf(last), NsOf(last))
          IN  /\ latest_key \in DOMAIN lg_cp_meta
              /\ lg_cp_meta[latest_key].checkpoint_id = last.checkpoint.id
    /\ (/\ last.op = "get_tuple"
        /\ last.config.configurable.checkpoint_id = NoneVal
        /\ ~ overlap
        /\ recent[PairOf(last)] # <<>>) =>
          LET id == Head(recent[PairOf(last)])
              put == written[<<ThreadOf(last), NsOf(last), id>>]
          IN  /\ last.result.found
              /\ last.result.config.checkpoint_id = id
              /\ last.result.checkpoint = put.checkpoint
              /\ last.result.checkpoint.id = id
              /\ last.result.metadata = put.metadata

\* A get_tuple without a checkpoint id returned the second of two ids put,
\* with a ledger attached.
C1_Witness ==
    /\ last.op = "get_tuple"
    /\ last.config.configurable.checkpoint_id = NoneVal
    /\ last.result.found
    /\ Len(recent[PairOf(last)]) = 2
    /\ last.result.pending_writes # <<>>

TimelineIds(thread_id, checkpoint_ns) ==
    LET items == _read_timeline_items(lg_cp_meta,
                                      _key_timeline(thread_id, checkpoint_ns))
    IN  [i \in DOMAIN items |-> items[i].cid]

NoDup(seq) == \A i, j \in DOMAIN seq : seq[i] = seq[j] => i = j

\* The metadata last put for an id of the (thread, ns) of a call.
PutMeta(call, id) == written[<<ThreadOf(call), NsOf(call), id>>].metadata

\* C3: after puts that did not overlap, no more ids than timeline_max having
\* been put, a list without `before` and with a limit of at least that many
\* returns the ids latest put first (for ids put once each: in reverse order
\* of insertion), each with the metadata that was put.
C3_HistoryOrder ==
    (/\ last.op = "list"
     /\ Falsy(last.config.configurable.before)
     /\ ~ overlap
     /\ Len(recent[PairOf(last)]) <= timeline_max
     /\ Max(1, last.limit) >= Len(recent[PairOf(last)])) =>
       last.result = [i \in DOMAIN recent[PairOf(last)] |->
                        [cid |-> recent[PairOf(last)][i],
                         meta |-> PutMeta(last, recent[PairOf(last)][i])]]

\* A list returned two ids, each put once, with different metadata.
C3_Witness ==
    /\ last.op = "list"
    /\ Falsy(last.config.configurable.before)
    /\ Len(recent[PairOf(last)]) = 2
    /\ Len(last.result) = 2
    /\ \A i \in 1..2 :
          <<ThreadOf(last), NsOf(last), recent[PairOf(last)][i]>> \notin reput
    /\ last.result[1].meta # last.result[2].meta

\* The position of the first occurrence of an id in a sequence of ids.
FirstAt(seq, id) == CHOOSE i \in DOMAIN seq : seq[i] = id /\ \A j \in 1..(i - 1) : seq[j] # id

\* C4: a list with `before` = b returns the entries of the timeline index
\* that follow the first occurrence of b (up to the limit), b excluded; when
\* b is no id of the index it returns the empty list.
C4_ListBefore ==
    (/\ last.op = "list"
     /\ ~ Falsy(last.config.configurable.before)
     /\ ~ overlap) =>
       LET b == last.config.configurable.before
           tl == TimelineIds(ThreadOf(last), NsOf(last))
       IN  IF \A i \in DOMAIN tl : tl[i] # b
           THEN last.result = <<>>
           ELSE LET at == FirstAt(tl, b)
                    n == IF Len(tl) - at < Max(1, last.limit)
                         THEN Len(tl) - at ELSE Max(1, last.limit)
                IN  last.result = [i \in 1..n |->
                                     [cid |-> tl[at + i],
                                      meta |-> PutMeta(last, tl[at + i])]]

\* A list with `before` in the index returned the entry after it.
C4_Witness ==
    /\ last.op = "list"
    /\ ~ Falsy(last.config.configurable.before)
    /\ last.result # <<>>
    /\ Head(TimelineIds(ThreadOf(last), NsOf(last))) = last.config.configurable.before

\* C5: the timeline index never holds more than timeline_max entries, also
\* between the steps of interleaved puts; after puts that did not overlap it
\* holds the timeline_max ids latest put, latest first (after timeline_max + 5
\* puts of distinct ids: exactly timeline_max entries).
C5_TimelineCap ==
    \A t \in Threads, ns \in Namespaces :
       /\ Len(TimelineIds(t, ns)) <= timeline_max
       /\ (Idle /\ ~ overlap) =>
             TimelineIds(t, ns) = Take(recent[<<t, ns>>], timeline_max)

\* timeline_max + 5 distinct ids were put, one after the other.
C5_Witness ==
    \E t \in Threads, ns \in Namespaces :
       /\ Idle /\ ~ overlap
       /\ Len(recent[<<t, ns>>]) = timeline_max + 5
       /\ Len(TimelineIds(t, ns)) = timeline_max

\* The ids of a sequence other than id, in order.
Others(seq, id) == SelectSeq(seq, LAMBDA x : x # id)

Ledger(store, thread_id, checkpoint_ns, checkpoint_id) ==
    LET key == _key_writes(thread_id, checkpoint_ns, checkpoint_id)
    IN  IF key \in DOMAIN store /\ "writes" \in DOMAIN store[key]
        THEN store[key].writes ELSE <<>>

\* The slot of the n-th write of a batch: the reserved index of a special
\* channel, or else the write's position in the batch.
SlotOf(writes, n) ==
    IF writes[n].channel \in SpecialChannels
    THEN WRITES_IDX_MAP(writes[n].channel) ELSE n - 1

Slots(writes) == {SlotOf(writes, n) : n \in DOMAIN writes}

\* The last write of a batch to a slot.
LastWriteTo(writes, slot) ==
    writes[CHOOSE n \in DOMAIN writes :
              /\ SlotOf(writes, n) = slot
              /\ \A m \in DOMAIN writes : SlotOf(writes, m) = slot => m <= n]

UniqueSlots(items) ==
    \A i, j \in DOMAIN items :
        (items[i].task_id = items[j].task_id /\ items[i].idx = items[j].idx)
            => i = j

\* The value a ledger item holds, decoded.
ValueOf(item) == loads_typed(item.type, item.value)

\* A step that completes a put_writes of caller p.
WritesStep(p) == pc[p] = "put_writes_write" /\ pc'[p] = "idle"

\* C7: in the ledger a put_writes leaves, no two items share (task_id,
\* slot); an item whose (task_id, slot) the batch writes keeps its position
\* and holds the channel and value of the batch's write to that slot, and the
\* ledger grows by one item per slot that was not there.
C7_LedgerSlotUnique ==
    [][\A p \in Procs :
         WritesStep(p) =>
           LET ids == _ids_from_config(loc[p].config)
               old == Ledger(lg_cp_w, ids.thread_id, ids.checkpoint_ns,
                             ids.checkpoint_id)
               new == Ledger(lg_cp_w', ids.thread_id, ids.checkpoint_ns,
                             ids.checkpoint_id)
               fresh == {s \in Slots(loc[p].writes) :
                           \A i \in DOMAIN old :
                              ~ (old[i].task_id = loc[p].task_id /\ old[i].idx = s)}
           IN  /\ UniqueSlots(new)
               /\ Len(new) = Len(old) + Cardinality(fresh)
               /\ \A i \in DOMAIN old :
                     (/\ old[i].task_id = loc[p].task_id
                      /\ old[i].idx \in Slots(loc[p].writes)) =>
                        /\ i \in DOMAIN new
                        /\ new[i].task_id = old[i].task_id
                        /\ new[i].idx = old[i].idx
                        /\ new[i].channel =
                              LastWriteTo(loc[p].writes, old[i].idx).channel
                        /\ ValueOf(new[i]) =
                              LastWriteTo(loc[p].writes, old[i].idx).value]_vars

\* Task k1 wrote [m:a, m:b] and then [m:c]: two items, slot 0 holding c and
\* slot 1 holding b.
C7_Witness ==
    \E t \in Threads, ns \in Namespaces :
       LET l == Ledger(lg_cp_w, t, ns, IdSeq[1])
       IN  /\ Idle
           /\ Len(l) = 2
           /\ l[1].task_id = <<"k1">> /\ l[1].idx = 0 /\ ValueOf(l[1]) = <<"c">>
           /\ l[2].task_id = <<"k1">> /\ l[2].idx = 1 /\ ValueOf(l[2]) = <<"b">>

\* C8: a put_writes that overlaps no other call leaves every item of the
\* ledger whose (task_id, slot) its batch does not write as it was, at the
\* position it had.
C8_MergeNotReplaceAll ==
    [][\A p \in Procs :
         (WritesStep(p) /\ ~ overlap) =>
           LET ids == _ids_from_config(loc[p].config)
               old == Ledger(lg_cp_w, ids.thread_id, ids.checkpoint_ns,
                             ids.checkpoint_id)
               new == Ledger(lg_cp_w', ids.thread_id, ids.checkpoint_ns,
                             ids.checkpoint_id)
           IN  \A i \in DOMAIN old :
                  ~ (/\ old[i].task_id = loc[p].task_id
                     /\ old[i].idx \in Slots(loc[p].writes)) =>
                     (i \in DOMAIN new /\ new[i] = old[i])]_vars

\* Task k1 wrote [m:a, m:b], task k2 wrote a batch, and task k1 then wrote
\* [m:c]: k1's slot 1 and k2's item are where they were.
C8_Witness ==
    \E t \in Threads, ns \in Namespaces :
       LET l == Ledger(lg_cp_w, t, ns, IdSeq[1])
       IN  /\ Idle
           /\ last.op = "put_writes"
           /\ last.task_id = <<"k1">>
           /\ Len(last.writes) = 1
           /\ Len(l) = 3
           /\ l[1].task_id = <<"k1">> /\ ValueOf(l[1]) = <<"c">>
           /\ l[2].task_id = <<"k1">> /\ ValueOf(l[2]) = <<"b">>
           /\ l[3].task_id = <<"k2">>

\* The ids of (thread, ns) that have a main record, and those that have a
\* ledger record.
MainIds(store, thread_id, checkpoint_ns) ==
    {IdSeq[i] : i \in {j \in DOMAIN IdSeq :
        _key_cp(thread_id, checkpoint_ns, IdSeq[j]) \in DOMAIN store}}

LedgerIds(store, thread_id, checkpoint_ns) ==
    {IdSeq[i] : i \in {j \in DOMAIN IdSeq :
        _key_writes(thread_id, checkpoint_ns, IdSeq[j]) \in DOMAIN store}}

\* The ids of the timeline index of (thread, ns).
IndexIds(thread_id, checkpoint_ns) ==
    {TimelineIds(thread_id, checkpoint_ns)[i] :
        i \in DOMAIN TimelineIds(thread_id, checkpoint_ns)}

\* No record of (thread, ns) is in the three sets given.
NothingLeft(cp, meta, w, thread_id, checkpoint_ns) ==
    /\ _key_latest(thread_id, checkpoint_ns) \notin DOMAIN meta
    /\ _key_timeline(thread_id, checkpoint_ns) \notin DOMAIN meta
    /\ MainIds(cp, thread_id, checkpoint_ns) = {}
    /\ LedgerIds(w, thread_id, checkpoint_ns) = {}

\* A get_tuple with no checkpoint id that is called in this step returns
\* None at once.
GetFindsNothing ==
    /\ \A p \in Procs :
          ~ (/\ pc[p] = "idle"
             /\ pc'[p] = "get_main"
             /\ loc'[p].config.configurable.checkpoint_id = NoneVal)
    /\ (last'.op = "get_tuple"
        /\ last'.config.configurable.checkpoint_id = NoneVal) =>
          last'.result = NotFound

\* A list that is called in this step returns the empty list at once.
ListFindsNothing ==
    /\ \A p \in Procs : ~ (pc[p] = "idle" /\ pc'[p] = "list_fetch")
    /\ last'.op = "list" => last'.result = <<>>

\* C9, as stated: a delete_thread on a (thread, ns) whose main records are
\* all of ids of the timeline index leaves no latest pointer, no timeline
\* index, no main record and no ledger record of that (thread, ns); the
\* get_tuple with no id and the list that follow it find nothing.
C9_DeleteRemovesAll_AsStated ==
    [][/\ (/\ DeleteStep
           /\ last'.op = "delete_thread"
           /\ MainIds(lg_cp, ThreadOf(last'), NsOf(last'))
                 \subseteq IndexIds(ThreadOf(last'), NsOf(last'))) =>
             NothingLeft(lg_cp', lg_cp_meta', lg_cp_w',
                         ThreadOf(last'), NsOf(last'))
       /\ last.op = "delete_thread" => (GetFindsNothing /\ ListFindsNothing)]_vars

\* C9: a delete_thread on a (thread, ns) whose main records and ledger
\* records are all of ids of the timeline index leaves no latest pointer, no
\* timeline index, no main record and no ledger record of that (thread, ns);
\* the get_tuple with no id and the list that follow it find nothing.
C9_DeleteRemovesAll ==
    [][/\ (/\ DeleteStep
           /\ last'.op = "delete_thread"
           /\ MainIds(lg_cp, ThreadOf(last'), NsOf(last'))
                 \subseteq IndexIds(ThreadOf(last'), NsOf(last'))
           /\ LedgerIds(lg_cp_w, ThreadOf(last'), NsOf(last'))
                 \subseteq IndexIds(ThreadOf(last'), NsOf(last'))) =>
             NothingLeft(lg_cp', lg_cp_meta', lg_cp_w',
                         ThreadOf(last'), NsOf(last'))
       /\ last.op = "delete_thread" => (GetFindsNothing /\ ListFindsNothing)]_vars

\* A delete_thread enumerated two ids, found both main records, a ledger,
\* the timeline index and the latest pointer, and left nothing.
C9_Witness ==
    /\ last.op = "delete_thread"
    /\ Cardinality(last.cids) = 2
    /\ Cardinality(last.found.cp) = 2
    /\ last.found.w # {}
    /\ Cardinality(last.found.meta) = 2
    /\ NothingLeft(lg_cp, lg_cp_meta, lg_cp_w, ThreadOf(last), NsOf(last))

\* C10: a delete_thread called right after a delete_thread with the same
\* config raises nothing, finds none of the records it looks for and leaves
\* the three sets as they were; the get_tuple with no id that follows the two
\* calls returns None.
C10_DeleteIdempotent ==
    [][/\ (/\ DeleteStep
           /\ last.op = "delete_thread"
           /\ last'.config = last.config) =>
             /\ last'.op = "delete_thread"
             /\ db' = db
             /\ last'.found = [cp |-> {}, w |-> {}, meta |-> {}]
       /\ twice => GetFindsNothing]_vars

\* delete_thread was called twice in succession on a (thread, ns) that held
\* records: the second call found nothing.
C10_Witness ==
    /\ twice
    /\ last.op = "delete_thread"
    /\ last.found = [cp |-> {}, w |-> {}, meta |-> {}]

\* C11: a delete_thread on a (thread, ns) that has a latest pointer and no
\* timeline index record completes without error, and leaves neither the
\* latest pointer nor the main record of the id the pointer named.
C11_DeleteWithoutTimeline ==
    [][(/\ DeleteStep
        /\ _key_timeline(ThreadOf(last'), NsOf(last')) \notin DOMAIN lg_cp_meta
        /\ _key_latest(ThreadOf(last'), NsOf(last')) \in DOMAIN lg_cp_meta) =>
          /\ last'.op = "delete_thread"
          /\ _key_latest(ThreadOf(last'), NsOf(last')) \notin DOMAIN lg_cp_meta'
          /\ _key_cp(ThreadOf(last'), NsOf(last'),
                     lg_cp_meta[_key_latest(ThreadOf(last'), NsOf(last'))]
                        .checkpoint_id) \notin DOMAIN lg_cp']_vars

\* Two ids were put, the timeline index was removed on its own, and
\* delete_thread found the latest pointer and the one main record it names;
\* the other main record is still there.
C11_Witness ==
    /\ last.op = "delete_thread"
    /\ last.found.meta = {_key_latest(ThreadOf(last), NsOf(last))}
    /\ Cardinality(last.found.cp) = 1
    /\ Cardinality(MainIds(lg_cp, ThreadOf(last), NsOf(last))) = 1

\* The ways a call of get_tuple is recorded: returned, or raised.
GetOps == {"get_tuple", "get_tuple_ValueError", "get_tuple_Exception",
           "get_tuple_RecordNotFound"}

\* C12: a get_tuple with an explicit id that has no main record, and a
\* get_tuple with no id on a (thread, ns) that has no latest pointer, return
\* None without raising; no step of a get_tuple changes a record.
C12_NotFoundIsNoError ==
    [][\A p \in Procs :
         /\ (pc[p] \in {"get_main", "get_writes"} \/ pc'[p] = "get_main") =>
               db' = db
         /\ (/\ pc[p] = "get_main"
             /\ loc[p].config.configurable.checkpoint_id # NoneVal
             /\ _key_cp(ThreadOf(loc[p]), NsOf(loc[p]), loc[p].checkpoint_id)
                   \notin DOMAIN lg_cp) =>
               /\ pc'[p] = "idle"
               /\ last'.op = "get_tuple"
               /\ last'.config = loc[p].config
               /\ last'.result = NotFound
         /\ \A t \in Threads, ns \in Namespaces :
               (/\ pc[p] = "idle"
                /\ _key_latest(t, ns) \notin DOMAIN lg_cp_meta) =>
                  /\ ~ (/\ pc'[p] = "get_main"
                        /\ loc'[p].config = MkConfig(t, ns, NoneVal, NoneVal))
                  /\ (/\ last' # last
                      /\ last'.op \in GetOps
                      /\ last'.proc = p
                      /\ last'.config = MkConfig(t, ns, NoneVal, NoneVal)) =>
                        /\ last'.op = "get_tuple"
                        /\ last'.result = NotFound
                        /\ db' = db]_vars

\* A get_tuple with the id of a checkpoint that was never put returned None
\* while other checkpoints of the (thread, ns) were stored.
C12_Witness ==
    /\ last.op = "get_tuple"
    /\ last.result = NotFound
    /\ last.config.configurable.checkpoint_id # NoneVal
    /\ <<ThreadOf(last), NsOf(last), last.config.configurable.checkpoint_id>>
          \notin DOMAIN written
    /\ recent[PairOf(last)] # <<>>

\* A put has nothing to validate it: no thread id in either mapping of the
\* config, or no id in the checkpoint.
PutInvalid(config, checkpoint) ==
    \/ /\ config.configurable.thread_id \in {NoneVal, <<>>}
       /\ config.metadata.thread_id \in {NoneVal, <<>>}
    \/ checkpoint.id \in {NoneVal, <<>>}

\* C13: a put whose config has no thread id, or whose checkpoint has no id,
\* issues no backend request: it raises ValueError at once and no record of
\* any set changes; a put that goes on to its writes is a valid one.
C13_PutValidatesFirst ==
    [][\A p \in Procs :
         /\ (pc[p] = "idle" /\ pc'[p] = "put_latest") =>
               ~ PutInvalid(loc'[p].config, loc'[p].checkpoint)
         /\ (Idle /\ Idle' /\ last' # last) => last'.op # "put"
         /\ (Idle /\ Idle' /\ last'.op = "put_ValueError") =>
               (PutInvalid(last'.config, last'.checkpoint) /\ db' = db)]_vars

\* A put with no thread id was refused while records of an earlier put and
\* a ledger were stored.
C13_Witness ==
    /\ last.op = "put_ValueError"
    /\ last.config.configurable.thread_id \in {NoneVal, <<>>}
    /\ last.checkpoint.id = IdSeq[1]
    /\ lg_cp # EmptyStore
    /\ lg_cp_meta # EmptyStore
    /\ lg_cp_w # EmptyStore

\* The thread id a config resolves to has the separator in it.
HasSep(config) ==
    LET tid == IF config.configurable.thread_id \in {NoneVal, <<>>}
               THEN config.metadata.thread_id
               ELSE config.configurable.thread_id
    IN  tid # NoneVal /\ \E i \in DOMAIN tid : <<tid[i]>> = SEP

\* The thread id a config resolves to is empty or missing.
NoThread(config) ==
    /\ config.configurable.thread_id \in {NoneVal, <<>>}
    /\ config.metadata.thread_id \in {NoneVal, <<>>}

\* The ways a call that raised ValueError is recorded.
ValueErrorOps == {"put_ValueError", "put_writes_ValueError",
                  "get_tuple_ValueError", "list_ValueError",
                  "delete_thread_ValueError"}

\* C16: no operation goes on to a backend request with a thread id that is
\* empty or holds the separator; a call with such a thread id raises
\* ValueError and changes no record.
C16_ThreadIdValidated ==
    [][\A p \in Procs :
         /\ (pc[p] = "idle" /\ pc'[p] # "idle") =>
               ~ (NoThread(loc'[p].config) \/ HasSep(loc'[p].config))
         /\ (/\ Idle /\ Idle' /\ last' # last
             /\ (NoThread(last'.config) \/ HasSep(last'.config))) =>
               (last'.op \in ValueErrorOps /\ db' = db)]_vars

\* C19: a put_writes with an empty list of writes, or with a config that
\* has no checkpoint id, issues no backend request: a put_writes that goes on
\* to the ledger has writes and a checkpoint id, and one that returns (or
\* raises) at once changes no record of any set.
C19_PutWritesNoOp ==
    [][\A p \in Procs :
         /\ (pc[p] = "idle" /\ pc'[p] = "put_writes_write") =>
               /\ loc'[p].writes # <<>>
               /\ loc'[p].config.configurable.checkpoint_id \notin {NoneVal, <<>>}
         /\ (/\ Idle /\ Idle'
             /\ last'.op \in {"put_writes", "put_writes_ValueError"}) =>
               db' = db]_vars

\* A put_writes with writes and no checkpoint id returned while a ledger and
\* a checkpoint were stored.
C19_Witness ==
    /\ last.op = "put_writes"
    /\ last.writes # <<>>
    /\ last.config.configurable.checkpoint_id = NoneVal
    /\ lg_cp_w # EmptyStore
    /\ lg_cp # EmptyStore

\* C14: a step in which a backend request of put fails ends the call with a
\* RuntimeError and changes no record: what put wrote before stays, what it
\* had not written yet is not written.  The write of the main record leaves
\* the latest pointer and the timeline as they were, so that after a failure
\* of the latest pointer's write the new main record is stored and both
\* still hold what they held before the put.
C14_PutFailureNoRollback ==
    [][\A p \in Procs :
         /\ (/\ pc'[p] = "idle"
             /\ last'.op = "put_RuntimeError"
             /\ last'.proc = p
             /\ (pc[p] # "idle" \/ last' # last)) =>
               /\ db' = db
               /\ last'.stage # "put_main" =>
                     /\ _key_cp(ThreadOf(last'), NsOf(last'), last'.checkpoint.id)
                           \in DOMAIN lg_cp'
                     /\ lg_cp'[_key_cp(ThreadOf(last'), NsOf(last'),
                                       last'.checkpoint.id)].checkpoint
                           = <<"bytes", last'.checkpoint>>
         /\ (pc[p] = "idle" /\ pc'[p] = "put_latest") =>
               (lg_cp_meta' = lg_cp_meta /\ lg_cp_w' = lg_cp_w)]_vars

\* The write of the latest pointer failed in the put of a second id: its
\* main record is stored, the latest pointer names the first id and the
\* timeline holds the first id alone.
C14_Witness ==
    /\ last.op = "put_RuntimeError"
    /\ last.stage = "put_latest"
    /\ _key_cp(ThreadOf(last), NsOf(last), last.checkpoint.id) \in DOMAIN lg_cp
    /\ Len(recent[PairOf(last)]) = 1
    /\ last.checkpoint.id # Head(recent[PairOf(last)])
    /\ lg_cp_meta[_key_latest(ThreadOf(last), NsOf(last))].checkpoint_id
          = Head(recent[PairOf(last)])
    /\ TimelineIds(ThreadOf(last), NsOf(last)) = recent[PairOf(last)]

\* C15: the key scheme is collision-free.  Two distinct triples (thread_id,
\* checkpoint_ns, checkpoint_id) never have the same checkpoint key nor the
\* same writes key; two triples with the same (thread_id, checkpoint_ns) have
\* the same latest key and the same timeline key, and two with distinct
\* (thread_id, checkpoint_ns) share neither.
C15_KeysCollisionFree ==
    last.op = "keys" =>
      /\ last.a # last.b =>
            /\ last.keys_a.cp # last.keys_b.cp
            /\ last.keys_a.writes # last.keys_b.writes
      /\ <<last.a[1], last.a[2]>> = <<last.b[1], last.b[2]>> =>
            /\ last.keys_a.latest = last.keys_b.latest
            /\ last.keys_a.timeline = last.keys_b.timeline
      /\ <<last.a[1], last.a[2]>> # <<last.b[1], last.b[2]>> =>
            /\ last.keys_a.latest # last.keys_b.latest
            /\ last.keys_a.timeline # last.keys_b.timeline

\* The payload of a main record is missing or cannot be decoded.
PayloadLost(bins) ==
    \/ "checkpoint" \notin DOMAIN bins
    \/ "cp_type" \notin DOMAIN bins
    \/ bins.checkpoint = Garbled
    \/ bins.cp_type = UnknownType

\* The metadata of a main record is no JSON text.
MetadataLost(bins) == "metadata" \in DOMAIN bins /\ bins.metadata = BadJson

\* C17: when get_tuple reads a main record whose payload is missing or
\* undecodable it returns None, with no error and no partial tuple; when
\* the payload is sound and the metadata is no JSON, it goes on with the
\* decoded checkpoint and an empty metadata mapping, and these two are what
\* the tuple it returns holds.
C17_AsymmetricDecode ==
    [][\A p \in Procs :
         /\ (pc[p] = "get_main" /\ pc'[p] # "get_main") =>
               LET key == _key_cp(ThreadOf(loc[p]), NsOf(loc[p]),
                                  loc[p].checkpoint_id)
               IN  key \in DOMAIN lg_cp =>
                     /\ PayloadLost(lg_cp[key]) =>
                           /\ pc'[p] = "idle"
                           /\ last' = [op |-> "get_tuple", proc |-> p,
                                       config |-> loc[p].config,
                                       result |-> [found |-> FALSE]]
                     /\ (~ PayloadLost(lg_cp[key]) /\ MetadataLost(lg_cp[key])) =>
                           /\ pc'[p] = "get_writes"
                           /\ loc'[p].checkpoint = lg_cp[key].checkpoint[2]
                           /\ loc'[p].metadata = EmptyMap
         /\ (pc[p] = "get_writes" /\ pc'[p] = "idle"
               /\ last'.op = "get_tuple") =>
               /\ last'.result.found
               /\ last'.result.checkpoint = loc[p].checkpoint
               /\ last'.result.metadata = loc[p].metadata]_vars

\* A get_tuple of a checkpoint that was put with metadata returned it with
\* an empty metadata mapping: the metadata of its main record is no JSON.
C17_Witness ==
    /\ Idle
    /\ last.op = "get_tuple"
    /\ last.result.found
    /\ last.result.metadata = EmptyMap
    /\ LET triple == <<ThreadOf(last), NsOf(last), last.result.config.checkpoint_id>>
           key == _key_cp(triple[1], triple[2], triple[3])
       IN  /\ key \in DOMAIN lg_cp
           /\ MetadataLost(lg_cp[key])
           /\ triple \in DOMAIN written
           /\ written[triple].metadata # EmptyMap
           /\ last.result.checkpoint = written[triple].checkpoint

\* An item of a ledger has its fields and a value the codec can load.
Sound(item) ==
    /\ {"channel", "type", "value"} \subseteq DOMAIN item
    /\ item.type = "msgpack"
    /\ item.value[1] = "bytes"

\* C18: get_tuple does not fail on a ledger with malformed items.  It
\* returns the checkpoint with the sound items of the ledger attached, in
\* the ledger's order, and the others left out.
C18_MalformedItemsSkipped ==
    [][\A p \in Procs :
         (pc[p] = "get_writes" /\ pc'[p] = "idle") =>
           LET key == _key_writes(ThreadOf(loc[p]), NsOf(loc[p]),
                                  loc[p].checkpoint_id)
               items == IF key \in DOMAIN lg_cp_w
                        THEN SelectSeq(lg_cp_w[key].writes, Sound) ELSE <<>>
           IN  /\ last'.op = "get_tuple"
               /\ last'.result.found
               /\ last'.result.pending_writes =
                     [i \in DOMAIN items |->
                        [task_id |-> items[i].task_id,
                         channel |-> items[i].channel,
                         value |-> items[i].value[2]]]]_vars

\* The id the latest pointer of (thread, ns) names, None when there is none.
LatestId(thread_id, checkpoint_ns) ==
    LET latest_key == _key_latest(thread_id, checkpoint_ns)
    IN  IF latest_key \in DOMAIN lg_cp_meta
        THEN lg_cp_meta[latest_key].checkpoint_id ELSE NoneVal

\* The latest pointer names an id that the timeline index lacks.
Ahead(thread_id, checkpoint_ns) ==
    /\ LatestId(thread_id, checkpoint_ns) # NoneVal
    /\ \A i \in DOMAIN TimelineIds(thread_id, checkpoint_ns) :
          TimelineIds(thread_id, checkpoint_ns)[i] # LatestId(thread_id, checkpoint_ns)

\* The id the latest pointer names is the newest entry of the timeline index.
Consistent(thread_id, checkpoint_ns) ==
    /\ LatestId(thread_id, checkpoint_ns) # NoneVal
    /\ TimelineIds(thread_id, checkpoint_ns) # <<>>
    /\ Head(TimelineIds(thread_id, checkpoint_ns)) = LatestId(thread_id, checkpoint_ns)

\* History of the stops: a put that stops after its write of the latest
\* pointer and leaves it ahead of the timeline; the completion of a put
\* after that.
TrackCrash ==
    crash' =
      IF \E p \in Procs :
            /\ pc[p] \in {"put_read_timeline", "put_write_timeline"}
            /\ pc'[p] = "idle"
            /\ last'.op = "put_stopped"
            /\ Ahead(ThreadOf(loc[p]), NsOf(loc[p]))
      THEN "stale"
      ELSE IF /\ crash = "stale"
              /\ \E p \in Procs : /\ pc[p] = "put_write_timeline"
                                   /\ pc'[p] = "idle"
                                   /\ last'.op = "put"
      THEN "healed"
      ELSE crash

\* One caller, whose calls never overlap: puts of up to three ids, which
\* may stop between two backend requests.
NextCrash ==
    /\ \E t \in Threads, ns \in Namespaces :
         \/ \E id \in CallerIds(t, ns, 3) :
               PutMain("p1", MkConfig(t, ns, NoneVal, NoneVal),
                       [id |-> id, ts |-> <<"T1">>, v |-> <<"V1">>], EmptyMap)
         \/ PutLatest("p1")
         \/ PutReadTimeline("p1")
         \/ PutWriteTimeline("p1")
         \/ PutStops("p1")
    /\ TrackCrash
    /\ UNCHANGED <<reput, twice>>

SpecCrash == Init /\ [][NextCrash]_vars

\* C20: a put that stops after its write of the latest pointer can leave the
\* pointer ahead of the timeline index; the next put of that (thread, ns)
\* that completes makes the store consistent again: the id the latest
\* pointer names, which is the id just put, is the newest entry of the
\* timeline index.  The same holds after every put that completes.
C20_SelfHealing ==
    /\ [](\A t \in Threads, ns \in Namespaces :
            (Idle /\ last.op = "put" /\ PairOf(last) = <<t, ns>>) =>
               /\ Consistent(t, ns)
               /\ LatestId(t, ns) = last.checkpoint.id)
    /\ [][\A t \in Threads, ns \in Namespaces :
            (crash = "stale" /\ crash' = "healed"
               /\ PairOf(last') = <<t, ns>>) =>
              Consistent(t, ns)']_vars

\* A put stopped before its write of the timeline and left the latest
\* pointer ahead of it; a later put completed, and the id it put is named
\* by the latest pointer and heads the timeline, which lacks the id of the
\* put that stopped although its main record is stored.
C20_Witness ==
    /\ crash = "healed"
    /\ Idle
    /\ last.op = "put"
    /\ Consistent(ThreadOf(last), NsOf(last))
    /\ \E i \in DOMAIN IdSeq :
          /\ _key_cp(ThreadOf(last), NsOf(last), IdSeq[i]) \in DOMAIN lg_cp
          /\ \A j \in DOMAIN TimelineIds(ThreadOf(last), NsOf(last)) :
                TimelineIds(ThreadOf(last), NsOf(last))[j] # IdSeq[i]

\* Two callers, each with a task of its own, whose put_writes to the ledger
\* of one checkpoint interleave between the read and the write.
NextLedgerRace ==
    /\ \E t \in Threads, ns \in Namespaces :
         \/ \E id \in CallerIds(t, ns, 1) :
               PutWritesRead("p1", MkConfig(t, ns, id, NoneVal),
                             <<[channel |-> <<"messages">>, value |-> <<"a">>],
                               [channel |-> ERROR, value |-> <<"e">>]>>,
                             <<"k1">>, <<>>)
         \/ \E id \in CallerIds(t, ns, 1), value \in {<<"c">>, <<"d">>} :
               PutWritesRead("p2", MkConfig(t, ns, id, NoneVal),
                             <<[channel |-> <<"messages">>, value |-> value]>>,
                             <<"k2">>, <<>>)
         \/ \E p \in Procs : PutWritesWrite(p)
    /\ UNCHANGED <<reput, twice, crash>>

SpecLedgerRace == Init /\ [][NextLedgerRace]_vars

\* The items of the ledger of a (thread, ns, checkpoint), as stored.
LedgerOf(store, thread_id, checkpoint_ns, checkpoint_id) ==
    LET key == _key_writes(thread_id, checkpoint_ns, checkpoint_id)
    IN  IF key \in DOMAIN store THEN store[key].writes ELSE <<>>

ItemsOf(seq) == {seq[i] : i \in DOMAIN seq}

\* C21: the write of put_writes replaces the whole ledger record by what the
\* call read, merged with its own items: every item of the new ledger is the
\* call's own or one that it read, so that the items another task wrote
\* between the call's read and its write are lost.  The call's own items
\* are always there; when nothing was written in between (the calls are
\* serialized) every item of another task is kept.
C21_LedgerLostUpdate ==
    [][\A p \in Procs :
         (pc[p] = "put_writes_write" /\ pc'[p] = "idle") =>
           LET id == loc[p].config.configurable.checkpoint_id
               old == LedgerOf(lg_cp_w, ThreadOf(loc[p]), NsOf(loc[p]), id)
               new == LedgerOf(lg_cp_w', ThreadOf(loc[p]), NsOf(loc[p]), id)
           IN  /\ \A item \in ItemsOf(new) :
                     \/ item.task_id = loc[p].task_id
                     \/ item \in ItemsOf(loc[p].existing_items)
               /\ \A w \in ItemsOf(loc[p].writes) :
                     \E item \in ItemsOf(new) :
                        /\ item.task_id = loc[p].task_id
                        /\ item.channel = w.channel
                        /\ item.value = <<"bytes", w.value>>
               /\ loc[p].existing_items = old =>
                     \A item \in ItemsOf(old) :
                        item.task_id # loc[p].task_id => item \in ItemsOf(new)]_vars

\* Two put_writes of different tasks overlapped and both completed: the
\* ledger holds the items of one task only.
C21_Witness ==
    /\ Idle
    /\ overlap
    /\ last.op = "put_writes"
    /\ LedgerOf(lg_cp_w, ThreadOf(last), NsOf(last),
                last.config.configurable.checkpoint_id) # <<>>
    /\ \A item \in ItemsOf(LedgerOf(lg_cp_w, ThreadOf(last), NsOf(last),
                                     last.config.configurable.checkpoint_id)) :
          item.task_id = last.task_id

\* Two callers whose puts overlap: the first puts id "a"; the second starts
\* its put of id "b" while the first's is in progress; their backend
\* requests interleave in every order.
NextPutRace ==
    /\ \E t \in Threads, ns \in Namespaces :
         \/ \E e \in Envelopes :
               /\ pc["p2"] = "idle"
               /\ PutMain("p1", MkConfig(t, ns, NoneVal, NoneVal),
                          [id |-> IdSeq[1], ts |-> e.ts, v |-> e.v], EmptyMap)
         \/ \E e \in Envelopes :
               /\ pc["p1"] # "idle"
               /\ PutMain("p2", MkConfig(t, ns, NoneVal, NoneVal),
                          [id |-> IdSeq[2], ts |-> e.ts, v |-> e.v], EmptyMap)
         \/ \E p \in Procs : PutLatest(p)
         \/ \E p \in Procs : PutReadTimeline(p)
         \/ \E p \in Procs : PutWriteTimeline(p)
    /\ UNCHANGED <<reput, twice, crash>>

SpecPutRace == Init /\ [][NextPutRace]_vars

\* C22: with two overlapping puts of distinct ids to one (thread, ns), the
\* latest pointer holds the id of whichever put wrote it last (each write of
\* it stores the writer's id, and nothing else changes it), and the timeline
\* index holds what the put that wrote it last made of what it had read:
\* its own id first, then ids that it read, so that an id written to the
\* index between its read and its write is missing.  Once both have
\* completed, the pointer and the index's first entry each name one of the
\* two ids, not necessarily the same.
C22_ConcurrentPuts ==
    /\ [](\A t \in Threads, ns \in Namespaces :
            (Idle /\ Len(recent[<<t, ns>>]) = 2) =>
               /\ LatestId(t, ns) \in ItemsOf(recent[<<t, ns>>])
               /\ TimelineIds(t, ns) # <<>>
               /\ Head(TimelineIds(t, ns)) \in ItemsOf(recent[<<t, ns>>]))
    /\ [][\A t \in Threads, ns \in Namespaces :
            /\ \A p \in Procs :
                 /\ (/\ pc[p] = "put_latest"
                     /\ pc'[p] = "put_read_timeline"
                     /\ PairOf(loc[p]) = <<t, ns>>) =>
                       LatestId(t, ns)' = loc[p].checkpoint.id
                 /\ (/\ pc[p] = "put_write_timeline"
                     /\ pc'[p] = "idle"
                     /\ PairOf(loc[p]) = <<t, ns>>) =>
                       /\ Head(TimelineIds(t, ns)') = loc[p].checkpoint.id
                       /\ \A id \in ItemsOf(TimelineIds(t, ns)') :
                             \/ id = loc[p].checkpoint.id
                             \/ \E item \in ItemsOf(loc[p].items) : item.cid = id
            /\ LatestId(t, ns)' # LatestId(t, ns) =>
                  \E p \in Procs : pc[p] = "put_latest" /\ pc'[p] # pc[p]
            /\ TimelineIds(t, ns)' # TimelineIds(t, ns) =>
                  \E p \in Procs : pc[p] = "put_write_timeline" /\ pc'[p] # pc[p]]_vars

\* Both puts have completed, once each, with room for two ids in the index:
\* the latest pointer names "a", the id of the put that started first, and
\* the timeline index holds "b" alone.
C22_Witness ==
    /\ Idle
    /\ overlap
    /\ timeline_max > 1
    /\ \E t \in Threads, ns \in Namespaces :
          /\ recent[<<t, ns>>] = <<IdSeq[2], IdSeq[1]>>
          /\ LatestId(t, ns) = IdSeq[1]
          /\ TimelineIds(t, ns) = <<IdSeq[2]>>

\* One caller, whose calls never overlap: puts of up to two ids, the loss of
\* the timeline index, gets with and without an id, and listings.
NextIndexLoss ==
    /\ \E t \in Threads, ns \in Namespaces :
         \/ \E id \in CallerIds(t, ns, 2), metadata \in Metadatas :
               PutMain("p1", MkConfig(t, ns, NoneVal, NoneVal),
                       [id |-> id, ts |-> <<"T1">>, v |-> <<"V1">>], metadata)
         \/ PutLatest("p1")
         \/ PutReadTimeline("p1")
         \/ PutWriteTimeline("p1")
         \/ DropTimeline("p1", t, ns)
         \/ \E id \in CallerIds(t, ns, 2) \cup {NoneVal} :
               GetLatest("p1", MkConfig(t, ns, id, NoneVal))
         \/ GetMain("p1")
         \/ GetWrites("p1")
         \/ \E limit \in {0, 2} :
               ListTimeline("p1", MkConfig(t, ns, NoneVal, NoneVal), limit)
         \/ ListFetch("p1")
    /\ UNCHANGED <<reput, twice, crash>>

SpecIndexLoss == Init /\ [][NextIndexLoss]_vars

\* The timeline index record of (thread, ns) is not there while its latest
\* pointer is.
IndexLost(thread_id, checkpoint_ns) ==
    /\ _key_timeline(thread_id, checkpoint_ns) \notin DOMAIN lg_cp_meta
    /\ _key_latest(thread_id, checkpoint_ns) \in DOMAIN lg_cp_meta

\* C23: while the timeline index of a (thread, ns) is lost and its latest
\* pointer and main records remain, list returns the empty list, get_tuple
\* without an id returns the checkpoint put last and get_tuple with the id
\* of a checkpoint that was put returns that checkpoint.  The put that
\* completes next leaves its own id alone in the index, and a list returns
\* the ids of the index (up to its limit), so only the new checkpoint.
C23_IndexLossSurvivable ==
    /\ [](\A t \in Threads, ns \in Namespaces :
            (Idle /\ last.op \in {"list", "get_tuple"}
               /\ PairOf(last) = <<t, ns>>) =>
              /\ (last.op = "list" /\ IndexLost(t, ns)) => last.result = <<>>
              /\ (/\ last.op = "get_tuple"
                  /\ IndexLost(t, ns)
                  /\ last.config.configurable.checkpoint_id = NoneVal) =>
                    /\ last.result.found
                    /\ last.result.config.checkpoint_id = Head(recent[<<t, ns>>])
                    /\ last.result.checkpoint =
                         written[<<t, ns, Head(recent[<<t, ns>>])>>].checkpoint
              /\ (/\ last.op = "get_tuple"
                  /\ IndexLost(t, ns)
                  /\ <<t, ns, last.config.configurable.checkpoint_id>>
                        \in DOMAIN written) =>
                    /\ last.result.found
                    /\ last.result.config.checkpoint_id =
                         last.config.configurable.checkpoint_id
                    /\ last.result.checkpoint =
                         written[<<t, ns, last.config.configurable.checkpoint_id>>].checkpoint
              /\ last.op = "list" =>
                    [i \in DOMAIN last.result |-> last.result[i].cid]
                      = Take(TimelineIds(t, ns), Max(1, last.limit)))
    /\ [][\A t \in Threads, ns \in Namespaces : \A p \in Procs :
            (/\ pc[p] = "put_read_timeline"
             /\ PairOf(loc[p]) = <<t, ns>>
             /\ IndexLost(t, ns)
             /\ pc'[p] = "put_write_timeline") =>
               loc'[p].items = <<>>]_vars
    /\ [][\A t \in Threads, ns \in Namespaces : \A p \in Procs :
            (/\ pc[p] = "put_write_timeline"
             /\ PairOf(loc[p]) = <<t, ns>>
             /\ IndexLost(t, ns)
             /\ pc'[p] = "idle") =>
               TimelineIds(t, ns)' = <<loc[p].checkpoint.id>>]_vars

\* Two ids were put, with room for both in the index; the index was lost
\* and one of them put again: a list with limit 2 returns that one alone.
C23_Witness ==
    /\ Idle
    /\ last.op = "list"
    /\ last.limit = 2
    /\ timeline_max > 1
    /\ Len(recent[PairOf(last)]) = 2
    /\ Len(last.result) = 1
    /\ last.result[1].cid = Head(recent[PairOf(last)])
    /\ \A id \in ItemsOf(recent[PairOf(last)]) :
          _key_cp(ThreadOf(last), NsOf(last), id) \in DOMAIN lg_cp

\* Two callers whose calls interleave between backend requests: both put
\* up to two ids, the second also gets without an id; a put may stop
\* between two requests or have a request fail.  No record is deleted.
NextDangling ==
    /\ \E t \in Threads, ns \in Namespaces :
         \/ \E p \in Procs, id \in CallerIds(t, ns, 2) :
               PutMain(p, MkConfig(t, ns, NoneVal, NoneVal),
                       [id |-> id, ts |-> <<"T1">>, v |-> <<"V1">>], EmptyMap)
         \/ \E p \in Procs : PutLatest(p)
         \/ \E p \in Procs : PutReadTimeline(p)
         \/ \E p \in Procs : PutWriteTimeline(p)
         \/ \E p \in Procs : PutStops(p)
         \/ \E p \in Procs : PutFails(p)
         \/ GetLatest("p2", MkConfig(t, ns, NoneVal, NoneVal))
         \/ GetMain("p2")
         \/ GetWrites("p2")
    /\ UNCHANGED <<reput, twice, crash>>

SpecDangling == Init /\ [][NextDangling]_vars

\* C24: whatever the interleaving of puts, and wherever a put stops or
\* fails, the id the latest pointer holds and every id of the timeline index
\* has a main record.  A get_tuple without an id that has resolved an id
\* therefore finds its main record and goes on with the checkpoint stored
\* under that id; what it returns is None or a tuple with that checkpoint,
\* whole.
C24_NoDanglingReferences ==
    /\ [](\A t \in Threads, ns \in Namespaces :
            /\ LatestId(t, ns) # NoneVal =>
                  _key_cp(t, ns, LatestId(t, ns)) \in DOMAIN lg_cp
            /\ \A id \in ItemsOf(TimelineIds(t, ns)) :
                  _key_cp(t, ns, id) \in DOMAIN lg_cp)
    /\ [](last.op = "get_tuple" =>
            \/ last.result = [found |-> FALSE]
            \/ /\ last.result.found
               /\ DOMAIN last.result.checkpoint = {"id", "ts", "v"}
               /\ last.result.checkpoint.id = last.result.config.checkpoint_id)
    /\ [][\A p \in Procs :
            (/\ pc[p] = "get_main"
             /\ pc'[p] # "get_main"
             /\ loc[p].config.configurable.checkpoint_id = NoneVal) =>
               LET key == _key_cp(ThreadOf(loc[p]), NsOf(loc[p]),
                                  loc[p].checkpoint_id)
               IN  /\ key \in DOMAIN lg_cp
                   /\ pc'[p] = "get_writes"
                   /\ loc'[p].checkpoint = lg_cp[key].checkpoint[2]]_vars

\* A get_tuple without an id returned the checkpoint of a put that has
\* written the latest pointer and not yet the timeline index, which lacks
\* its id.
C24_Witness ==
    /\ last.op = "get_tuple"
    /\ last.result.found
    /\ pc["p1"] \in {"put_read_timeline", "put_write_timeline"}
    /\ loc["p1"].checkpoint.id = last.result.checkpoint.id
    /\ \A id \in ItemsOf(TimelineIds(ThreadOf(last), NsOf(last))) :
          id # last.result.checkpoint.id
    /\ \A k \in DOMAIN written : k[3] # last.result.checkpoint.id

\* One caller, whose puts never overlap, fail or stop: puts of up to three
\* ids, with a timestamp of their own or without.
NextSerialPuts ==
    /\ \E t \in Threads, ns \in Namespaces :
         \/ \E id \in CallerIds(t, ns, 3), e \in Envelopes :
               PutMain("p1", MkConfig(t, ns, NoneVal, NoneVal),
                       [id |-> id, ts |-> e.ts, v |-> e.v], EmptyMap)
         \/ PutLatest("p1")
         \/ PutReadTimeline("p1")
         \/ PutWriteTimeline("p1")
    /\ UNCHANGED <<reput, twice, crash>>

SpecSerialPuts == Init /\ [][NextSerialPuts]_vars

\* The entries of the timeline index of (thread, ns), as stored.
TimelineItems(thread_id, checkpoint_ns) ==
    _read_timeline_items(lg_cp_meta, _key_timeline(thread_id, checkpoint_ns))

\* C25: with serialized puts that neither fail nor stop, whenever no put is
\* in progress the timeline index of a (thread, ns) is non-empty exactly when
\* its latest pointer exists, and its first entry carries the checkpoint id
\* and the timestamp of the latest pointer.
C25_PointerAndIndexAgree ==
    \A t \in Threads, ns \in Namespaces :
       Idle =>
         /\ TimelineItems(t, ns) # <<>>
               <=> _key_latest(t, ns) \in DOMAIN lg_cp_meta
         /\ _key_latest(t, ns) \in DOMAIN lg_cp_meta =>
               /\ Head(TimelineItems(t, ns)).cid
                     = lg_cp_meta[_key_latest(t, ns)].checkpoint_id
               /\ Head(TimelineItems(t, ns)).t
                     = lg_cp_meta[_key_latest(t, ns)].ts

\* Three ids were put, the last with a timestamp of its own: the latest
\* pointer and the first entry of the index both carry its id and that
\* timestamp, while another entry carries the clock's reading.
C25_Witness ==
    /\ Idle
    /\ last.op = "put"
    /\ Len(recent[PairOf(last)]) = 3
    /\ TimelineItems(ThreadOf(last), NsOf(last)) # <<>>
    /\ Head(TimelineItems(ThreadOf(last), NsOf(last))).cid = last.checkpoint.id
    /\ Head(TimelineItems(ThreadOf(last), NsOf(last))).t = <<"T1">>
    /\ lg_cp_meta[_key_latest(ThreadOf(last), NsOf(last))].ts = <<"T1">>
    /\ \E item \in ItemsOf(TimelineItems(ThreadOf(last), NsOf(last))) :
          item.t = NowStamp

\* The namespaces and checkpoint ids of the callers of two (thread, ns):
\* plain ones, and ones with the "|" that subgraph namespaces carry.
FrameNamespaces == Namespaces \cup {SepNamespace}
FrameIds == {IdSeq[1], SepId}

\* One caller, whose calls never overlap: every operation of the saver, on
\* two namespaces of one thread.
NextFrame ==
    /\ \E t \in Threads, ns \in FrameNamespaces :
         \/ \E id \in FrameIds :
               PutMain("p1", MkConfig(t, ns, NoneVal, NoneVal),
                       [id |-> id, ts |-> <<"T1">>, v |-> <<"V1">>], EmptyMap)
         \/ PutLatest("p1")
         \/ PutReadTimeline("p1")
         \/ PutWriteTimeline("p1")
         \/ \E id \in {IdSeq[1]} :
               PutWritesRead("p1", MkConfig(t, ns, id, NoneVal),
                             <<[channel |-> <<"messages">>, value |-> <<"x">>]>>,
                             <<"k1">>, <<>>)
         \/ PutWritesWrite("p1")
         \/ \E id \in {SepId, NoneVal} :
               GetLatest("p1", MkConfig(t, ns, id, NoneVal))
         \/ GetMain("p1")
         \/ GetWrites("p1")
         \/ ListTimeline("p1", MkConfig(t, ns, NoneVal, NoneVal), 2)
         \/ ListFetch("p1")
    /\ UNCHANGED <<reput, twice, crash>>

SpecFrame == Init /\ [][NextFrame]_vars

\* The record under a key, if there is one.
RecOf(store, key) == IF key \in DOMAIN store THEN <<store[key]>> ELSE <<>>

\* The call a step of caller p belongs to: the one in progress, or the one
\* the step starts.
StepCall(p, before, after) == IF before[p].op = "none" THEN after[p] ELSE before[p]

\* C26: the write sets of the operations.  A step of get_tuple or list
\* changes no record.  A step of put_writes changes no main record, no
\* latest pointer, no timeline index, and no ledger but that of its own
\* (thread, ns, checkpoint).  A step of put changes no ledger, no main
\* record of another triple, and no latest pointer or timeline index of
\* another (thread, ns).
C26_WriteSets ==
    [][\A p \in Procs :
         LET call == StepCall(p, loc, loc')
         IN  pc'[p] # pc[p] =>
               /\ call.op \in {"get_tuple", "list"} => db' = db
               /\ call.op = "put_writes" =>
                     /\ lg_cp' = lg_cp
                     /\ lg_cp_meta' = lg_cp_meta
                     /\ \A t \in Threads, ns \in FrameNamespaces, id \in FrameIds :
                           <<t, ns, id>> # <<ThreadOf(call), NsOf(call),
                                             call.config.configurable.checkpoint_id>> =>
                             RecOf(lg_cp_w', _key_writes(t, ns, id))
                               = RecOf(lg_cp_w, _key_writes(t, ns, id))
               /\ call.op = "put" =>
                     /\ lg_cp_w' = lg_cp_w
                     /\ \A t \in Threads, ns \in FrameNamespaces, id \in FrameIds :
                           <<t, ns, id>> # <<ThreadOf(call), NsOf(call),
                                             call.checkpoint.id>> =>
                             RecOf(lg_cp', _key_cp(t, ns, id))
                               = RecOf(lg_cp, _key_cp(t, ns, id))
                     /\ \A t \in Threads, ns \in FrameNamespaces :
                           <<t, ns>> # PairOf(call) =>
                             /\ RecOf(lg_cp_meta', _key_latest(t, ns))
                                   = RecOf(lg_cp_meta, _key_latest(t, ns))
                             /\ RecOf(lg_cp_meta', _key_timeline(t, ns))
                                   = RecOf(lg_cp_meta, _key_timeline(t, ns))]_vars

\* A main record is gone (expired, or removed from outside the saver)
\* while the timeline index still holds its id.
DropMain(p, thread_id, checkpoint_ns, checkpoint_id) ==
    LET key == _key_cp(thread_id, checkpoint_ns, checkpoint_id)
    IN  /\ Call(p)
        /\ key \in DOMAIN lg_cp
        /\ lg_cp' = [k \in DOMAIN lg_cp \ {key} |-> lg_cp[k]]
        /\ Return(p, [op |-> "_delete", proc |-> p,
                      config |-> MkConfig(thread_id, checkpoint_ns,
                                          checkpoint_id, NoneVal),
                      found |-> TRUE])
        /\ UNCHANGED <<lg_cp_meta, lg_cp_w, timeline_max, hist>>

\* The limits callers pass to list: negative, zero, and positive ones.
ListLimits == {-1, 0, 1, 2}

\* One caller, whose calls never overlap: puts of up to three ids, main
\* records that go missing, and listings at several limits, with and
\* without `before`.
NextListGaps ==
    /\ \E t \in Threads, ns \in Namespaces :
         \/ \E id \in CallerIds(t, ns, 3) :
               PutMain("p1", MkConfig(t, ns, NoneVal, NoneVal),
                       [id |-> id, ts |-> <<"T1">>, v |-> <<"V1">>], <<"M1">>)
         \/ PutLatest("p1")
         \/ PutReadTimeline("p1")
         \/ PutWriteTimeline("p1")
         \/ \E id \in ItemsOf(TimelineIds(t, ns)) : DropMain("p1", t, ns, id)
         \/ \E before \in ItemsOf(TimelineIds(t, ns)) \cup {NoneVal},
               limit \in ListLimits :
               ListTimeline("p1", MkConfig(t, ns, NoneVal, before), limit)
         \/ ListFetch("p1")
    /\ UNCHANGED <<reput, twice, crash>>

SpecListGaps == Init /\ [][NextListGaps]_vars

\* The entries of a timeline that follow the first one with the id `before`.
After(ids, before) ==
    IF \E i \in DOMAIN ids : ids[i] = before
    THEN SubSeq(ids, FirstAt(ids, before) + 1, Len(ids))
    ELSE <<>>

\* The number of entries list looks at: limit, and 1 when limit is less.
Effective(limit) == IF limit < 1 THEN 1 ELSE limit

\* C27: a list never fails on an entry whose main record is missing.  It
\* returns at most max(1, limit) pairs: of the first max(1, limit) entries
\* of the timeline index (those after `before`, when it is given), the ones
\* whose main record exists, in the order of the index; no entry beyond
\* these takes the place of a missing one.
C27_ListBoundedTolerant ==
    /\ [](\A t \in Threads, ns \in Namespaces :
            (Idle /\ last.op = "list" /\ PairOf(last) = <<t, ns>>) =>
              LET before == last.config.configurable.before
                  filtered == IF before = NoneVal THEN TimelineIds(t, ns)
                              ELSE After(TimelineIds(t, ns), before)
                  window == SubSeq(filtered, 1,
                                   IF Len(filtered) < Effective(last.limit)
                                   THEN Len(filtered) ELSE Effective(last.limit))
                  present(id) == _key_cp(t, ns, id) \in DOMAIN lg_cp
              IN  /\ Len(last.result) <= Effective(last.limit)
                  /\ [i \in DOMAIN last.result |-> last.result[i].cid]
                        = SelectSeq(window, present))
    /\ [][\A p \in Procs :
            (pc[p] = "list_fetch" /\ pc'[p] = "idle") => last'.op = "list"]_vars

\* A list with a limit of 0 found two entries in the index, the main record
\* of the first missing and that of the second there: it returned nothing.
C27_Witness ==
    /\ Idle
    /\ last.op = "list"
    /\ last.limit = 0
    /\ last.config.configurable.before = NoneVal
    /\ last.result = <<>>
    /\ Len(TimelineIds(ThreadOf(last), NsOf(last))) = 2
    /\ _key_cp(ThreadOf(last), NsOf(last),
               TimelineIds(ThreadOf(last), NsOf(last))[1]) \notin DOMAIN lg_cp
    /\ _key_cp(ThreadOf(last), NsOf(last),
               TimelineIds(ThreadOf(last), NsOf(last))[2]) \in DOMAIN lg_cp

====
